---- MODULE Spec2Model ----
(***************************************************************************)
(* Verification model of the asciinema recorder (x6nux/asciinema).         *)
(*                                                                         *)
(* Conventions                                                             *)
(*  - times are integer milliseconds (1.5 s = 1500, 1.0 s = 1000);         *)
(*  - a payload ([]byte) is a sequence of byte values 0..255;              *)
(*  - a JSON string is a sequence of Unicode code points;                  *)
(*  - a file is a sequence of lines; a line is the JSON value it holds:    *)
(*      shape "header" : the header object, dur = its duration field       *)
(*      shape "arr"    : a JSON list, v = its elements                     *)
(*      shape "obj"    : a JSON object, v = <<a, b, c, d>> (absent = None) *)
(*      shape "trunc"  : text that is not a complete JSON value            *)
(*    lead = the number of white-space bytes before the JSON text;         *)
(*  - a JSON element is [t |-> "num"|"str"|"none", n |-> Int, s |-> Seq].  *)
(***************************************************************************)
EXTENDS Integers, Sequences, FiniteSets, TLC

VARIABLES
    file,          \* content of the recording file: sequence of lines
    handle,        \* os.File handle of the writer: "none" | "open" | "closed"
    swState,       \* result of NewStreamWriter: "none" | "ok" | "failed"
    enableCompress,\* StreamWriter.enableCompress
    batchFrames,   \* StreamWriter.batchFrames
    totalDataSize, \* StreamWriter.totalDataSize
    lastWriteTime, \* StreamWriter.lastWriteTime (ms)
    written,       \* history: frames handed to WriteFrame, in arrival order
    fixLog,        \* history: one record per FixCast call (writer state seen)
    closeCalls,    \* history: number of StreamWriter.Close calls made
    cfg,           \* Runner configuration: [DisableCompress, MaxWait (ms)]
    stream,        \* capture Stream: [Frames, elapsedTime, maxWait, closed]
    pc,            \* control state of the operation sequence under study
    inp,           \* input of a pure-function study (frame, file, ...)
    out            \* result of a pure-function study

vars == <<file, handle, swState, enableCompress, batchFrames, totalDataSize,
          lastWriteTime, written, fixLog, closeCalls, cfg, stream, pc, inp, out>>

(***************************************************************************)
(* Generic helpers                                                         *)
(***************************************************************************)
Min(a, b) == IF a < b THEN a ELSE b
Max(a, b) == IF a > b THEN a ELSE b

RECURSIVE Concat(_)
\* concatenation of a sequence of sequences (bytes.Buffer.Write in a loop)
Concat(ss) == IF ss = <<>> THEN <<>> ELSE Head(ss) \o Concat(Tail(ss))

NoneVal == [t |-> "none", n |-> 0, s |-> <<>>]
Num(x) == [t |-> "num", n |-> x, s |-> <<>>]
Str(cs) == [t |-> "str", n |-> 0, s |-> cs]

(***************************************************************************)
(* encoding/json string conversion.  json.Marshal(string(bytes)) coerces   *)
(* the bytes to valid UTF-8: every byte that is not part of a well-formed  *)
(* sequence becomes U+FFFD (65533).  Modelled for 1- and 2-byte sequences; *)
(* payload bytes of the model are ASCII, 2-byte sequences or ill-formed.   *)
(***************************************************************************)
IsCont(b) == b >= 128 /\ b <= 191
IsLead2(b) == b >= 194 /\ b <= 223

\* byte i is the continuation byte of a 2-byte sequence started at i-1
Consumed(d, i) == i > 1 /\ IsCont(d[i]) /\ IsLead2(d[i - 1])

\* code point decoded at start position i (utf8.DecodeRuneInString)
RuneAt(d, i) ==
    IF d[i] < 128 THEN d[i]
    ELSE IF IsLead2(d[i]) /\ i < Len(d) /\ IsCont(d[i + 1])
         THEN (d[i] - 192) * 64 + (d[i + 1] - 128)
         ELSE 65533

\* string(bytes) as json.Marshal writes it: the code points of the JSON string
JsonStringOf(d) ==
    LET idx == [i \in 1..Len(d) |-> i]
        starts == SelectSeq(idx, LAMBDA i : ~Consumed(d, i))
    IN  [k \in 1..Len(starts) |-> RuneAt(d, starts[k])]

\* UTF-8 bytes of one code point (utf8.EncodeRune), for code points < 65536
RuneBytes(c) ==
    IF c < 128 THEN <<c>>
    ELSE IF c < 2048 THEN <<192 + (c \div 64), 128 + (c % 64)>>
    ELSE <<224 + (c \div 4096), 128 + ((c \div 64) % 64), 128 + (c % 64)>>

RECURSIVE BytesOfString(_)
\* []byte(s) for a decoded JSON string s (the halves are converted separately)
BytesOfString(cs) ==
    IF Len(cs) = 0 THEN <<>>
    ELSE IF Len(cs) = 1 THEN RuneBytes(cs[1])
    ELSE BytesOfString(SubSeq(cs, 1, Len(cs) \div 2))
         \o BytesOfString(SubSeq(cs, Len(cs) \div 2 + 1, Len(cs)))

(***************************************************************************)
(* Frame (asciicast/frame.go).  EventType is the byte string of the Go     *)
(* string: "o" = <<111>>, "z" = <<122>>.                                   *)
(***************************************************************************)
KindO == <<111>>
KindZ == <<122>>

Frame(t, k, data, e) == [Time |-> t, EventType |-> k, EventData |-> data, EndTime |-> e]
RawFrame(t, data) == Frame(t, KindO, data, 0)
ZeroFrame == Frame(0, <<>>, <<>>, 0)

ArrLine(elems) == [shape |-> "arr", v |-> elems, dur |-> 0, lead |-> 0]
ObjLine(a, b, c, d) == [shape |-> "obj", v |-> <<a, b, c, d>>, dur |-> 0, lead |-> 0]
HeaderLine(duration) ==
    [shape |-> "header", v |-> <<NoneVal, NoneVal, NoneVal, NoneVal>>, dur |-> duration, lead |-> 0]
TruncLine == [shape |-> "trunc", v |-> <<>>, dur |-> 0, lead |-> 0]

\* the same JSON text after n bytes of white space
Padded(line, n) == [line EXCEPT !.lead = n]

\* bytes.HasPrefix(data, []byte("{")): the very first byte is the brace
startsWithBrace(line) == line.shape \in {"obj", "header"} /\ line.lead = 0

\* the line ndjson.Writer.Encode([]interface{}{time, "o", string(data)}) writes
RawLine(t, data) == ArrLine(<<Num(t), Str(JsonStringOf(KindO)), Str(JsonStringOf(data))>>)

\* Frame.MarshalJSON: keyed object for "z" (d omitted when zero), list otherwise
MarshalJSON(f) ==
    IF f.EventType = KindZ
    THEN ObjLine(Num(f.Time), Str(JsonStringOf(f.EventType)),
                 Str(JsonStringOf(f.EventData)),
                 IF f.EndTime # 0 THEN Num(f.EndTime) ELSE NoneVal)
    ELSE ArrLine(<<Num(f.Time), Str(JsonStringOf(f.EventType)),
                   Str(JsonStringOf(f.EventData))>>)

\* the keyed branch of UnmarshalJSON: each key is copied when its type matches
UnmarshalObj(line, f) ==
    LET a == line.v[1]
        b == line.v[2]
        c == line.v[3]
        d == line.v[4]
    IN  Frame(IF a.t = "num" THEN a.n ELSE f.Time,
              IF b.t = "str" THEN BytesOfString(b.s) ELSE f.EventType,
              IF c.t = "str" THEN BytesOfString(c.s) ELSE f.EventData,
              IF d.t = "num" THEN d.n ELSE f.EndTime)

\* mutant of UnmarshalJSON: a line that is no complete JSON value is accepted
UnmarshalJSON_Lenient(line, f) ==
    IF startsWithBrace(line)
    THEN [err |-> FALSE, f |-> UnmarshalObj(line, f)]
    ELSE IF line.shape = "arr" /\ Len(line.v) >= 3
              /\ line.v[1].t = "num" /\ line.v[2].t = "str" /\ line.v[3].t = "str"
         THEN [err |-> FALSE,
               f |-> Frame(line.v[1].n, BytesOfString(line.v[2].s),
                           BytesOfString(line.v[3].s), f.EndTime)]
         ELSE [err |-> FALSE, f |-> f]

\* Frame.UnmarshalJSON applied to frame value f: [err, f]
UnmarshalJSON(line, f) ==
    IF startsWithBrace(line)
    THEN [err |-> FALSE, f |-> UnmarshalObj(line, f)]
    ELSE IF line.shape # "arr" THEN [err |-> TRUE, f |-> f]
    ELSE IF Len(line.v) < 3 THEN [err |-> TRUE, f |-> f]
    ELSE IF line.v[1].t # "num" THEN [err |-> TRUE, f |-> f]
    ELSE IF line.v[2].t # "str"
         THEN [err |-> TRUE, f |-> [f EXCEPT !.Time = line.v[1].n]]
    ELSE IF line.v[3].t # "str"
         THEN [err |-> TRUE,
               f |-> [f EXCEPT !.Time = line.v[1].n,
                               !.EventType = BytesOfString(line.v[2].s)]]
    ELSE [err |-> FALSE,
          f |-> Frame(line.v[1].n, BytesOfString(line.v[2].s),
                      BytesOfString(line.v[3].s), f.EndTime)]

(***************************************************************************)
(* base64.StdEncoding: text is a sequence of ASCII codes, padded with '='. *)
(***************************************************************************)
B64Char(i) ==
    IF i < 26 THEN 65 + i
    ELSE IF i < 52 THEN 97 + (i - 26)
    ELSE IF i < 62 THEN 48 + (i - 52)
    ELSE IF i = 62 THEN 43 ELSE 47

\* value of an alphabet character, -1 for any other character
B64Val(c) ==
    IF c >= 65 /\ c <= 90 THEN c - 65
    ELSE IF c >= 97 /\ c <= 122 THEN c - 97 + 26
    ELSE IF c >= 48 /\ c <= 57 THEN c - 48 + 52
    ELSE IF c = 43 THEN 62
    ELSE IF c = 47 THEN 63 ELSE -1

Pow64(k) == IF k = 0 THEN 1 ELSE IF k = 1 THEN 64 ELSE IF k = 2 THEN 4096 ELSE 262144

\* base64.StdEncoding.EncodeToString
Base64Encode(b) ==
    LET n == Len(b)
        at(i) == IF i <= n THEN b[i] ELSE 0
    IN  [k \in 1..(4 * ((n + 2) \div 3)) |->
            LET g == (k - 1) \div 4
                pos == (k - 1) % 4
                word == at(3 * g + 1) * 65536 + at(3 * g + 2) * 256 + at(3 * g + 3)
            IN  IF pos >= 2 /\ 3 * g + pos > n THEN 61
                ELSE B64Char((word \div Pow64(3 - pos)) % 64)]

\* base64.StdEncoding.DecodeString: [err, data]
Base64Decode(c) ==
    LET m == Len(c)
        pad == IF m >= 1 /\ c[m] = 61 THEN (IF m >= 2 /\ c[m - 1] = 61 THEN 2 ELSE 1) ELSE 0
        val(i) == IF i > m - pad THEN 0 ELSE B64Val(c[i])
        bad == m % 4 # 0 \/ \E i \in 1..(m - pad) : B64Val(c[i]) < 0
    IN  IF bad THEN [err |-> TRUE, data |-> <<>>]
        ELSE [err |-> FALSE,
              data |-> [k \in 1..(3 * (m \div 4) - pad) |->
                  LET g == (k - 1) \div 3
                      pos == (k - 1) % 3
                      word == val(4 * g + 1) * 262144 + val(4 * g + 2) * 4096
                              + val(4 * g + 3) * 64 + val(4 * g + 4)
                  IN  IF pos = 0 THEN word \div 65536
                      ELSE IF pos = 1 THEN (word \div 256) % 256
                      ELSE word % 256]]

(***************************************************************************)
(* compress/gzip, modelled as a lossless coder with the framing of a gzip  *)
(* member: 10-byte header, a repeat token (mode and period, covered        *)
(* length), the stored bytes, a check word and the 4-byte original size    *)
(* (ISIZE).  The token covers a run of period p at the start of the data   *)
(* (the pattern, then the literal tail, are stored) or at its end (the     *)
(* literal head, then the pattern, are stored).  Repetitive data shrinks,  *)
(* other data grows by the 22 bytes of framing.                            *)
(***************************************************************************)
GzWindow == 12
SuffixMode == 128

\* length of the longest prefix of d that repeats with period p
PrefixLen(d, p) ==
    CHOOSE m \in p..Len(d) :
        /\ (m = Len(d) \/ d[m + 1] # d[m + 1 - p])
        /\ \A i \in (p + 1)..m : d[i] = d[i - p]

\* length of the longest suffix of d that repeats with period p
SuffixLen(d, p) ==
    CHOOSE m \in p..Len(d) :
        /\ (m = Len(d) \/ d[Len(d) - m] # d[Len(d) - m + p])
        /\ \A i \in (Len(d) - m + 1)..(Len(d) - p) : d[i] = d[i + p]

Size4(n) == <<n % 256, (n \div 256) % 256, (n \div 65536) % 256, (n \div 16777216) % 256>>
Val4(z, i) == z[i] + 256 * z[i + 1] + 65536 * z[i + 2] + 16777216 * z[i + 3]

\* integrity word of the trailer (stands for CRC-32)
Check4(d) == Size4(Cardinality({i \in 1..Len(d) : d[i] % 2 = 1}))

\* candidate periods for data of length n
gzPeriods(n) == Min(GzWindow, n - 1)

\* covered length for every candidate: periods at the start, then periods at the end
gzCover(d) ==
    [q \in 1..(2 * gzPeriods(Len(d))) |->
        IF q <= gzPeriods(Len(d)) THEN PrefixLen(d, q)
        ELSE SuffixLen(d, q - gzPeriods(Len(d)))]

\* period of candidate q
gzPeriod(n, q) == IF q <= gzPeriods(n) THEN q ELSE q - gzPeriods(n)

\* stored bytes when candidate q is used (0: everything literal)
gzCost(n, cover, q) == IF q = 0 THEN n ELSE gzPeriod(n, q) + (n - cover[q])

\* the first candidate of least cost
gzBest(n, cover) ==
    CHOOSE q \in 0..Len(cover) :
        /\ \A r \in 0..Len(cover) : gzCost(n, cover, q) <= gzCost(n, cover, r)
        /\ \A r \in 0..(q - 1) : gzCost(n, cover, r) > gzCost(n, cover, q)

gzFrame(d, tok, m, stored) ==
    <<31, 139, 8, 0, 0, 0, 0, 0, 0, 255>> \o <<tok>> \o SubSeq(Size4(m), 1, 3)
    \o stored \o Check4(d) \o Size4(Len(d))

\* member for a run of period p and length m at the start (p = 0: no run)
gzPackPrefix(d, p, m) ==
    gzFrame(d, p, m, SubSeq(d, 1, p) \o SubSeq(d, m + 1, Len(d)))

\* member for a run of period p and length m at the end
gzPackSuffix(d, p, m) ==
    gzFrame(d, SuffixMode + p, m,
            SubSeq(d, 1, Len(d) - m) \o SubSeq(d, Len(d) - m + 1, Len(d) - m + p))

gzEncode(d, cover, q) ==
    IF q = 0 THEN gzPackPrefix(d, 0, 0)
    ELSE IF q <= gzPeriods(Len(d)) THEN gzPackPrefix(d, q, cover[q])
    ELSE gzPackSuffix(d, gzPeriod(Len(d), q), cover[q])

gzChoose(d, cover) == gzEncode(d, cover, gzBest(Len(d), cover))

\* compressData (gzip.NewWriter + Write + Close); never fails on a bytes.Buffer
compressData(data) == gzChoose(data, gzCover(data))

\* the bytes a member stands for
gzExpand(z, atEnd, p, m, n) ==
    [i \in 1..n |->
        IF atEnd
        THEN (IF i <= n - m THEN z[14 + i] ELSE z[14 + (n - m) + ((i - (n - m) - 1) % p) + 1])
        ELSE (IF i <= m THEN z[14 + ((i - 1) % p) + 1] ELSE z[14 + p + (i - m)])]

gzChecked(z, d) ==
    IF Check4(d) = SubSeq(z, Len(z) - 7, Len(z) - 4)
    THEN [err |-> FALSE, data |-> d] ELSE [err |-> TRUE, data |-> <<>>]

gzRead(z, atEnd, p, m, n) ==
    IF z[1] # 31 \/ z[2] # 139 \/ Len(z) - 22 - p < 0 \/ n # m + (Len(z) - 22 - p)
       \/ (p = 0 /\ (m # 0 \/ atEnd)) \/ (p > 0 /\ m < p)
    THEN [err |-> TRUE, data |-> <<>>]
    ELSE gzChecked(z, gzExpand(z, atEnd, p, m, n))

\* gzip.NewReader + io.ReadAll: [err, data]
gunzip(z) ==
    IF Len(z) < 22 THEN [err |-> TRUE, data |-> <<>>]
    ELSE gzRead(z, z[11] >= SuffixMode, z[11] % SuffixMode,
                z[12] + 256 * z[13] + 65536 * z[14], Val4(z, Len(z) - 3))

\* base64-decode result handed to the gzip reader
afterBase64(dec) == IF dec.err THEN [err |-> TRUE, data |-> <<>>] ELSE gunzip(dec.data)

\* processCompressedFrame: base64-decode then gunzip the payload of a "z" frame
processCompressedFrame(f) == afterBase64(Base64Decode(f.EventData))

(***************************************************************************)
(* StreamWriter (cmd: NewStreamWriter, flushBatchFrames, WriteFrame, Close)*)
(***************************************************************************)
minBatchSize == 4
maxBatchSize == 32
dataThreshold == 4096
FlushGapMs == 1500
GroupGapMs == 1000

\* number of file writes that succeed when nothing fails
NoFail == 1000000

\* contentSimilarity(a, b) > 0.5, with sameCount / minLen compared exactly
contentSimilar(a, b) ==
    IF Len(a) = 0 \/ Len(b) = 0 THEN FALSE
    ELSE LET minLen == Min(Min(Len(a), Len(b)), 32)
             sameCount == Cardinality({i \in 1..minLen : a[i] = b[i]})
         IN  2 * sameCount > minLen

\* mutant of sameGroup: a gap of exactly 1.0 s still counts as close
sameGroup_GapInclusive(prev, f) ==
    f.Time - prev.Time <= GroupGapMs /\ contentSimilar(f.EventData, prev.EventData)

\* the test that keeps frame f in the group of its predecessor
sameGroup(prev, f) ==
    f.Time - prev.Time < GroupGapMs /\ contentSimilar(f.EventData, prev.EventData)

RECURSIVE groupFrom(_, _, _, _)
\* the grouping loop over sw.batchFrames[i..], currentGroup = cur
groupFrom(b, i, groups, cur) ==
    IF i > Len(b) THEN Append(groups, cur)
    ELSE IF sameGroup(b[i - 1], b[i])
         THEN groupFrom(b, i + 1, groups, Append(cur, b[i]))
         ELSE groupFrom(b, i + 1, Append(groups, cur), <<b[i]>>)

\* mutant of initialGroups: the batch is kept as one group
initialGroups_OneGroup(b) == <<b>>

\* initial partition of a non-empty batch
initialGroups(b) == groupFrom(b, 2, <<>>, <<b[1]>>)

RECURSIVE mergeFrom(_, _, _, _)
\* the merge loop over groups[i..]: optimizedGroups = opt, currentMergedGroup = cur
mergeFrom(groups, i, opt, cur) ==
    IF i > Len(groups)
    THEN (IF Len(cur) > 0 THEN Append(opt, cur) ELSE opt)
    ELSE LET g == groups[i]
         IN  IF Len(cur) + Len(g) <= maxBatchSize
             THEN mergeFrom(groups, i + 1, opt, cur \o g)
             ELSE LET saved == IF Len(cur) > 0 THEN Append(opt, cur) ELSE opt
                  IN  IF Len(g) >= minBatchSize
                      THEN mergeFrom(groups, i + 1, Append(saved, g), <<>>)
                      ELSE mergeFrom(groups, i + 1, saved, g)

\* mutant of mergeIfSeveral: the sub-groups are left as the partition made them
mergeIfSeveral_NoMerge(groups) == groups

\* groups after the optional merge step (only when there is more than one)
mergeIfSeveral(groups) ==
    IF Len(groups) > 1 THEN mergeFrom(groups, 1, <<>>, <<>>) ELSE groups

finalGroups(b) == mergeIfSeveral(initialGroups(b))

rawLines(group) == [i \in 1..Len(group) |-> RawLine(group[i].Time, group[i].EventData)]

\* mutant of thresholdPct: the boundaries belong to the smaller threshold
thresholdPct_FromBoundary(size) == IF size >= 8192 THEN 85 ELSE IF size >= 1024 THEN 90 ELSE 95

\* compressionThreshold in percent for an original size
thresholdPct(size) == IF size > 8192 THEN 85 ELSE IF size > 1024 THEN 90 ELSE 95

groupData(group) == Concat([i \in 1..Len(group) |-> group[i].EventData])

\* compressionRatio < compressionThreshold
worthCompressing(compressedLen, originalLen) ==
    compressedLen * 100 < thresholdPct(originalLen) * originalLen

\* mutant of compressFrame: the block ends at the time of the group's first frame
compressFrame_EndAtFirst(group, compressedData) ==
    Frame(group[1].Time, KindZ, Base64Encode(compressedData), group[1].Time)

\* the "z" frame of a group whose compressed bytes are compressedData
compressFrame(group, compressedData) ==
    Frame(group[1].Time, KindZ, Base64Encode(compressedData), group[Len(group)].Time)

\* the decision taken once the group's bytes are compressed
compressedOrRaw(group, originalLen, compressedData) ==
    IF worthCompressing(Len(compressedData), originalLen)
    THEN <<MarshalJSON(compressFrame(group, compressedData))>>
    ELSE rawLines(group)

compressGroup(group, all) == compressedOrRaw(group, Len(all), compressData(all))

\* the lines one group contributes: one "z" line, or its frames raw
groupLines(group) ==
    IF Len(group) < minBatchSize THEN rawLines(group)
    ELSE compressGroup(group, groupData(group))

linesOfGroups(groups) == Concat([i \in 1..Len(groups) |-> groupLines(groups[i])])

\* all lines a flush of batch b writes when no write fails
flushLines(b, enable) ==
    IF ~enable \/ Len(b) < minBatchSize THEN rawLines(b)
    ELSE linesOfGroups(finalGroups(b))

\* outcome of a flush whose lines are `all`, with `budget` successful writes left
flushOutcome(b, total, all, budget) ==
    IF budget < Len(all)
    THEN [lines |-> SubSeq(all, 1, budget), err |-> TRUE, batch |-> b, total |-> total]
    ELSE [lines |-> all, err |-> FALSE, batch |-> <<>>, total |-> 0]

noFlush(b, total) == [lines |-> <<>>, err |-> FALSE, batch |-> b, total |-> total]

\* flushBatchFrames with `budget` successful line writes left:
\* the lines written, the error flag, and the batch state afterwards
flushBatchFrames(b, total, enable, budget) ==
    IF Len(b) = 0 THEN noFlush(b, total)
    ELSE flushOutcome(b, total, flushLines(b, enable), budget)

\* mutant of flushTrigger: the time gap does not trigger a flush
flushTrigger_SizeOnly(b, total, lastT, frame) ==
    total > dataThreshold /\ Len(b) >= minBatchSize

\* mutant of flushTrigger: the accumulated size does not trigger a flush
flushTrigger_GapOnly(b, total, lastT, frame) ==
    frame.Time - lastT > FlushGapMs /\ Len(b) >= minBatchSize

\* the first flush of WriteFrame: time gap or accumulated size, on a full-enough batch
flushTrigger(b, total, lastT, frame) ==
    \/ (frame.Time - lastT > FlushGapMs /\ Len(b) >= minBatchSize)
    \/ (total > dataThreshold /\ Len(b) >= minBatchSize)

\* WriteFrame's result from the outcomes f1, f2 of its two possible flushes
writeOutcome(f1, f2, lastT, frame) ==
    IF f1.err
    THEN [lines |-> f1.lines, err |-> TRUE, batch |-> f1.batch,
          total |-> f1.total, lastT |-> lastT]
    ELSE [lines |-> f1.lines \o f2.lines, err |-> f2.err, batch |-> f2.batch,
          total |-> f2.total, lastT |-> frame.Time]

\* mutant of appendAndFlush: a batch that reached maxBatchSize is not flushed
appendAndFlush_NoMaxFlush(b2, t2, enable, budget) == noFlush(b2, t2)

\* the append and the flush of a batch that reached maxBatchSize
appendAndFlush(b2, t2, enable, budget) ==
    IF Len(b2) >= maxBatchSize THEN flushBatchFrames(b2, t2, enable, budget)
    ELSE noFlush(b2, t2)

afterFirstFlush(f1, lastT, enable, frame, budget) ==
    writeOutcome(f1,
                 appendAndFlush(Append(f1.batch, frame),
                                f1.total + Len(frame.EventData),
                                enable, budget - Len(f1.lines)),
                 lastT, frame)

\* StreamWriter.WriteFrame on writer state (b, total, lastT, enable):
\* lines appended to the file, error flag, writer state afterwards
WriteFrameResult(b, total, lastT, enable, frame, budget) ==
    IF ~enable
    THEN [lines |-> IF budget >= 1 THEN <<RawLine(frame.Time, frame.EventData)>> ELSE <<>>,
          err |-> budget < 1, batch |-> b, total |-> total, lastT |-> lastT]
    ELSE afterFirstFlush(IF flushTrigger(b, total, lastT, frame)
                         THEN flushBatchFrames(b, total, enable, budget)
                         ELSE noFlush(b, total),
                         lastT, enable, frame, budget)

(***************************************************************************)
(* FixCast, the repair pass.  Its code is not part of the sources at hand; *)
(* it is modelled from its contract: a file that starts with a header line *)
(* keeps its header and frame lines, loses an unparsable last line, and    *)
(* gets the time of the last retained frame as header duration.            *)
(***************************************************************************)
parses(line) == ~UnmarshalJSON(line, ZeroFrame).err

frameOfLine(line) == UnmarshalJSON(line, ZeroFrame).f

\* the repaired file: header with the last retained frame's time, then the lines kept
repaired(header, kept) ==
    <<HeaderLine(IF Len(kept) > 0 /\ parses(kept[Len(kept)])
                 THEN frameOfLine(kept[Len(kept)]).Time ELSE header.dur)>> \o kept

\* mutant of FixCast: the last line is dropped whether it parses or not
FixCast_DropLast(f) ==
    IF Len(f) = 0 \/ f[1].shape # "header" THEN f
    ELSE repaired(f[1], IF Len(f) > 1 THEN SubSeq(f, 2, Len(f) - 1) ELSE <<>>)

FixCast(f) ==
    IF Len(f) = 0 \/ f[1].shape # "header" THEN f
    ELSE repaired(f[1], IF Len(f) > 1 /\ ~parses(f[Len(f)])
                        THEN SubSeq(f, 2, Len(f) - 1) ELSE Tail(f))

\* what a FixCast call sees of the writer: pending batch frames and the handle
FixEntry(by, pending, h) == [by |-> by, pending |-> pending, handle |-> h]

(***************************************************************************)
(* Reading a recording back (Runner.loadFile + the player's frame handling)*)
(***************************************************************************)
\* frames of the lines after line 1 that decode; undecodable lines are skipped
framesOf(good) == [i \in 1..Len(good) |-> frameOfLine(good[i])]

\* bufio.MaxScanTokenSize: the Scanner gives up on a line that does not fit its buffer
MaxScanTokenSize == 65536

\* bytes the text of one JSON element takes at least (a string of ASCII characters
\* takes one byte per character and two quotes; escapes only add to that)
elemTextLen(e) == IF e.t = "str" THEN Len(e.s) + 2 ELSE IF e.t = "num" THEN 1 ELSE 4

RECURSIVE elemsTextLen(_)
\* the elements of a line and a separator after each
elemsTextLen(v) == IF Len(v) = 0 THEN 0 ELSE elemTextLen(v[1]) + 1 + elemsTextLen(Tail(v))

\* bytes the text of a line takes at least: white space, brackets, elements
lineTextLen(line) == line.lead + 1 + elemsTextLen(line.v)

\* index of the first line the Scanner cannot return (Len(f) + 1: none)
firstTooLong(f) ==
    IF \E i \in 1..Len(f) : lineTextLen(f[i]) >= MaxScanTokenSize
    THEN CHOOSE i \in 1..Len(f) :
            /\ lineTextLen(f[i]) >= MaxScanTokenSize
            /\ \A j \in 1..(i - 1) : lineTextLen(f[j]) < MaxScanTokenSize
    ELSE Len(f) + 1

\* the lines fileScanner.Scan() returns before it stops
scannedLines(f) == SubSeq(f, 1, firstTooLong(f) - 1)

\* loadFile: line 1 is the header, the later scanned lines that decode are frames
loadFrames(f) ==
    framesOf(SelectSeq(IF Len(scannedLines(f)) > 0 THEN Tail(scannedLines(f)) ELSE <<>>, parses))

decodedOrNothing(r) == IF r.err THEN <<>> ELSE r.data

\* bytes the player sends to the terminal for one frame (none when decoding fails)
frameOutput(fr) ==
    IF fr.EventType = KindZ THEN decodedOrNothing(processCompressedFrame(fr))
    ELSE fr.EventData

outputOf(frames) == Concat([i \in 1..Len(frames) |-> frameOutput(frames[i])])

\* all bytes replayed from a file, in order
fileData(f) == outputOf(loadFrames(f))

(***************************************************************************)
(* Capture Stream (asciicast/stream.go)                                    *)
(***************************************************************************)
FloorMs == 500
DefaultMaxWaitMs == 1000

\* NewStream / NewStreamWithCallback: a non-positive maxWait becomes 1.0 s
NewStream(maxWait) ==
    [Frames |-> <<>>, elapsedTime |-> 0,
     maxWait |-> IF maxWait <= 0 THEN DefaultMaxWaitMs ELSE maxWait,
     closed |-> FALSE]

\* mutant of elapsedDelta: a non-positive delta is added as it is
elapsedDelta_NoFloor(d, maxWait) == IF maxWait > 0 /\ d > maxWait THEN maxWait ELSE d

\* mutant of elapsedDelta: the delta is not capped at maxWait
elapsedDelta_NoCap(d, maxWait) == IF d <= 0 THEN FloorMs ELSE d

\* the delta incrementElapsedTime adds for a wall-clock delta d
elapsedDelta(d, maxWait) ==
    IF (IF maxWait > 0 /\ d > maxWait THEN maxWait ELSE d) <= 0 THEN FloorMs
    ELSE IF maxWait > 0 /\ d > maxWait THEN maxWait ELSE d

\* Stream.incrementElapsedTime: the stream after the clock advanced by d
incrementElapsedTime(st, d) ==
    [st EXCEPT !.elapsedTime = st.elapsedTime + elapsedDelta(d, st.maxWait)]

\* the frame Stream.Write records for payload p on the incremented stream
streamFrame(st, p) == RawFrame(st.elapsedTime, p)

appendFrame(st, p) == [st EXCEPT !.Frames = Append(st.Frames, streamFrame(st, p))]

\* Stream.Write(p), d of wall-clock time after the previous write (callback apart)
StreamWritten(st, p, d) == appendFrame(incrementElapsedTime(st, d), p)

dropExit(st) ==
    [st EXCEPT !.closed = TRUE,
               !.Frames = IF Len(st.Frames) > 0
                             /\ st.Frames[Len(st.Frames)].EventData = <<101, 120, 105, 116, 13, 10>>
                          THEN SubSeq(st.Frames, 1, Len(st.Frames) - 1)
                          ELSE st.Frames]

\* Stream.Close(), d of wall-clock time after the last write
StreamClosed(st, d) == dropExit(incrementElapsedTime(st, d))

(***************************************************************************)
(* Inputs                                                                  *)
(***************************************************************************)
PayA == <<97, 98, 97, 98, 97, 98, 97, 98>>
PayB == <<255>>
PayExit == <<101, 120, 105, 116, 13, 10>>

\* a frame input: the payload and the time since the previous frame (ms)
FrameKinds == {[data |-> PayA, dt |-> 10], [data |-> PayB, dt |-> 10],
               [data |-> PayA, dt |-> 2000]}

FreeLen == 4
MaxFrames == 33
MaxLate == 1
MaxCloses == 2

\* time of the last frame handed to WriteFrame (0 before the first)
lastTime == IF Len(written) = 0 THEN 0 ELSE written[Len(written)].f.Time

\* the input kind of the last frame handed to WriteFrame
lastKind ==
    LET n == Len(written)
    IN  [data |-> written[n].f.EventData,
         dt |-> written[n].f.Time - (IF n = 1 THEN 0 ELSE written[n - 1].f.Time)]

\* payloads of the frames handed to WriteFrame, concatenated in arrival order
writtenData == Concat([i \in 1..Len(written) |-> written[i].f.EventData])

(***************************************************************************)
(* Actions of the writer                                                   *)
(***************************************************************************)
writerVars == <<handle, swState, enableCompress, batchFrames, totalDataSize, lastWriteTime>>

\* mutant of NewStreamWriter: the writer is returned without encoding the header
NewStreamWriter_NoHeader ==
    /\ swState = "none"
    /\ file' = <<>>
    /\ handle' = "open"
    /\ swState' = "ok"
    /\ enableCompress' = ~cfg.DisableCompress
    /\ UNCHANGED <<batchFrames, totalDataSize, lastWriteTime>>

\* NewStreamWriter followed by the configuration overrides of Runner.Rec
NewStreamWriter ==
    /\ swState = "none"
    /\ \E res \in {"ok", "createFails", "encodeFails"} :
        \/ /\ res = "ok"
           /\ file' = <<HeaderLine(0)>>
           /\ handle' = "open"
           /\ swState' = "ok"
           /\ enableCompress' = ~cfg.DisableCompress
        \/ /\ res = "createFails"
           /\ swState' = "failed"
           /\ UNCHANGED <<file, handle, enableCompress>>
        \/ /\ res = "encodeFails"
           /\ \E partial \in BOOLEAN :
                file' = IF partial THEN <<TruncLine>> ELSE <<>>
           /\ handle' = "closed"
           /\ swState' = "failed"
           /\ UNCHANGED enableCompress
    /\ UNCHANGED <<batchFrames, totalDataSize, lastWriteTime>>

budgetNow == IF handle = "open" THEN NoFail ELSE 0

\* the state change of one StreamWriter.WriteFrame(frame) call
applyWrite(r, frame) ==
    /\ file' = file \o r.lines
    /\ batchFrames' = r.batch
    /\ totalDataSize' = r.total
    /\ lastWriteTime' = r.lastT
    /\ written' = Append(written, [f |-> frame, open |-> handle = "open", ok |-> ~r.err])

DoWriteFrame(frame) ==
    applyWrite(WriteFrameResult(batchFrames, totalDataSize, lastWriteTime,
                                enableCompress, frame, budgetNow), frame)

\* the state change of one StreamWriter.Close() call
applyClose(fl) ==
    /\ batchFrames' = fl.batch
    /\ totalDataSize' = fl.total
    /\ handle' = "closed"
    /\ file' = FixCast(file \o fl.lines)
    /\ fixLog' = Append(fixLog, FixEntry("Close", Len(fl.batch), "closed"))
    /\ closeCalls' = closeCalls + 1

DoClose ==
    applyClose(IF enableCompress /\ Len(batchFrames) > 0
               THEN flushBatchFrames(batchFrames, totalDataSize, enableCompress, budgetNow)
               ELSE noFlush(batchFrames, totalDataSize))

\* a caller hands the next frame to WriteFrame
WriteFrame ==
    /\ swState = "ok"
    /\ Len(written) < MaxFrames
    /\ closeCalls > 0 =>
         Cardinality({i \in 1..Len(written) : ~written[i].open}) < MaxLate
    /\ \E k \in FrameKinds :
        /\ Len(written) >= FreeLen => k = lastKind
        /\ DoWriteFrame(RawFrame(lastTime + k.dt, k.data))
    /\ UNCHANGED <<handle, swState, enableCompress, fixLog, closeCalls, cfg, stream, pc, inp, out>>

\* a caller closes the writer
Close ==
    /\ swState = "ok"
    /\ closeCalls < MaxCloses
    /\ DoClose
    /\ UNCHANGED <<swState, enableCompress, lastWriteTime, written, cfg, stream, pc, inp, out>>

WInit ==
    /\ file = <<>>
    /\ handle = "none"
    /\ swState = "none"
    /\ enableCompress = TRUE
    /\ batchFrames = <<>>
    /\ totalDataSize = 0
    /\ lastWriteTime = 0
    /\ written = <<>>
    /\ fixLog = <<>>
    /\ closeCalls = 0
    /\ cfg \in [DisableCompress : BOOLEAN, MaxWait : {2000}]
    /\ stream = NewStream(cfg.MaxWait)
    /\ pc = "writer"
    /\ inp = <<>>
    /\ out = <<>>

WNext ==
    \/ NewStreamWriter /\ UNCHANGED <<written, fixLog, closeCalls, cfg, stream, pc, inp, out>>
    \/ WriteFrame
    \/ Close

SpecWriter == WInit /\ [][WNext]_vars

(***************************************************************************)
(* The capture Stream alone (bulk recording: no callback)                  *)
(***************************************************************************)
MaxWaits == {-1000, 0, 100, 500, 1000, 3000}
WallDeltas == {-5, 0, 10, 700, 5000}
StreamPayloads == {PayA, PayExit}
MaxStreamWrites == 4

\* Stream.Write of the next chunk of terminal output; inp logs the wall-clock
\* delta of every write
StreamWrite ==
    /\ ~stream.closed
    /\ Len(stream.Frames) < MaxStreamWrites
    /\ \E p \in StreamPayloads, d \in WallDeltas :
         /\ stream' = StreamWritten(stream, p, d)
         /\ written' = Append(written, [f |-> streamFrame(incrementElapsedTime(stream, d), p),
                                        open |-> FALSE, ok |-> FALSE])
         /\ inp' = Append(inp, d)
    /\ UNCHANGED <<file, writerVars, fixLog, closeCalls, cfg, pc, out>>

\* Stream.Close at the end of the capture
StreamClose ==
    /\ ~stream.closed
    /\ \E d \in WallDeltas : stream' = StreamClosed(stream, d)
    /\ UNCHANGED <<file, writerVars, written, fixLog, closeCalls, cfg, pc, inp, out>>

SInit ==
    /\ file = <<>>
    /\ handle = "none"
    /\ swState = "none"
    /\ enableCompress = TRUE
    /\ batchFrames = <<>>
    /\ totalDataSize = 0
    /\ lastWriteTime = 0
    /\ written = <<>>
    /\ fixLog = <<>>
    /\ closeCalls = 0
    /\ cfg \in [DisableCompress : {FALSE}, MaxWait : MaxWaits]
    /\ stream = NewStream(cfg.MaxWait)
    /\ pc = "stream"
    /\ inp = <<>>
    /\ out = <<>>

SNext == StreamWrite \/ StreamClose

SpecStream == SInit /\ [][SNext]_vars

(***************************************************************************)
(* Runner.Rec, streaming path: the recording goroutine, the signal         *)
(* listener of Rec and the SIGINT handler installed by initAsciinema.      *)
(*   pc.main     : "start" | "recording" | "finishing" | "deferred" | "done"*)
(*   pc.listener : "waiting" | "gotSignal" | "closed" | "returned"         *)
(*   pc.sig      : "none" | "SIGINT" | "SIGTERM"  (the signal delivered)   *)
(***************************************************************************)
RecPayloads == {PayA, PayExit}
RecDeltas == {10}
MaxWrites == 5
MaxPanics == 1

\* Close() followed by one more FixCast call made by `by`
applyCloseAndFix(fl, by) ==
    /\ batchFrames' = fl.batch
    /\ totalDataSize' = fl.total
    /\ handle' = "closed"
    /\ file' = FixCast(FixCast(file \o fl.lines))
    /\ fixLog' = fixLog \o <<FixEntry("Close", Len(fl.batch), "closed"),
                             FixEntry(by, Len(fl.batch), "closed")>>
    /\ closeCalls' = closeCalls + 1

DoCloseAndFix(by) ==
    applyCloseAndFix(IF enableCompress /\ Len(batchFrames) > 0
                     THEN flushBatchFrames(batchFrames, totalDataSize, enableCompress, budgetNow)
                     ELSE noFlush(batchFrames, totalDataSize), by)

\* NewStreamWriter in Rec; on failure Rec returns the error at once
RecStart ==
    /\ pc.main = "start" /\ ~pc.exited
    /\ NewStreamWriter
    /\ pc' = [pc EXCEPT !.main = IF swState' = "ok" THEN "recording" ELSE "done",
                        !.err = swState' # "ok"]
    /\ UNCHANGED <<written, fixLog, closeCalls, cfg, stream, inp, out>>

\* a callback whose recovery boundary swallows the panic without Close or FixCast
callback_NoRepair(frame, panics) ==
    IF panics
    THEN /\ pc.panics < MaxPanics
         /\ pc' = [pc EXCEPT !.panics = pc.panics + 1]
         /\ UNCHANGED <<file, handle, batchFrames, totalDataSize, fixLog, closeCalls,
                        lastWriteTime, written>>
    ELSE /\ DoWriteFrame(frame)
         /\ UNCHANGED <<handle, fixLog, closeCalls, pc>>

\* the frame callback of Rec: WriteFrame, or a panic recovered by Close + FixCast
callback(frame, panics) ==
    IF panics
    THEN /\ pc.panics < MaxPanics
         /\ DoCloseAndFix("recover")
         /\ pc' = [pc EXCEPT !.panics = pc.panics + 1]
         /\ UNCHANGED <<lastWriteTime, written>>
    ELSE /\ DoWriteFrame(frame)
         /\ UNCHANGED <<handle, fixLog, closeCalls, pc>>

\* one Stream.Write during the recording, with its synchronous callback
RecWrite ==
    /\ pc.main = "recording" /\ ~pc.exited
    /\ Len(stream.Frames) < MaxWrites
    /\ \E p \in RecPayloads, d \in RecDeltas, panics \in BOOLEAN :
         /\ stream' = StreamWritten(stream, p, d)
         /\ callback(streamFrame(incrementElapsedTime(stream, d), p), panics)
    /\ UNCHANGED <<swState, enableCompress, cfg, inp, out>>

\* ExecuteWithCallback returns (Stream.Close on success), then close(done)
RecReturn ==
    /\ pc.main = "recording" /\ ~pc.exited
    /\ \E failed \in BOOLEAN, d \in RecDeltas :
         /\ stream' = IF failed THEN stream ELSE StreamClosed(stream, d)
         /\ pc' = [pc EXCEPT !.main = "finishing", !.err = failed, !.done = TRUE]
    /\ UNCHANGED <<file, writerVars, written, fixLog, closeCalls, cfg, inp, out>>

\* "if err != nil return err", else FixCast(r.FilePath) before returning
RecFix ==
    /\ pc.main = "finishing" /\ ~pc.exited
    /\ pc' = [pc EXCEPT !.main = "deferred"]
    /\ IF pc.err
       THEN UNCHANGED <<file, fixLog>>
       ELSE /\ file' = FixCast(file)
            /\ fixLog' = Append(fixLog, FixEntry("Rec", Len(batchFrames), handle))
    /\ UNCHANGED <<writerVars, written, closeCalls, cfg, stream, inp, out>>

\* the deferred function of Rec: streamWriter.Close(), then FixCast again
RecDeferred ==
    /\ pc.main = "deferred" /\ ~pc.exited
    /\ DoCloseAndFix("defer")
    /\ pc' = [pc EXCEPT !.main = "done"]
    /\ UNCHANGED <<swState, enableCompress, lastWriteTime, written, cfg, stream, inp, out>>

\* SIGINT or SIGTERM is delivered while the recording runs
Signal ==
    /\ pc.main = "recording" /\ ~pc.exited
    /\ pc.sig = "none"
    /\ \E sg \in {"SIGINT", "SIGTERM"} : pc' = [pc EXCEPT !.sig = sg]
    /\ UNCHANGED <<file, writerVars, written, fixLog, closeCalls, cfg, stream, inp, out>>

\* the listener's select takes the signal
ListenerRecv ==
    /\ pc.listener = "waiting" /\ ~pc.exited
    /\ pc.sig # "none"
    /\ pc' = [pc EXCEPT !.listener = "gotSignal"]
    /\ UNCHANGED <<file, writerVars, written, fixLog, closeCalls, cfg, stream, inp, out>>

\* the listener's select takes the closed done channel
ListenerDone ==
    /\ pc.listener = "waiting" /\ ~pc.exited
    /\ pc.done
    /\ pc' = [pc EXCEPT !.listener = "returned"]
    /\ UNCHANGED <<file, writerVars, written, fixLog, closeCalls, cfg, stream, inp, out>>

\* the listener calls streamWriter.Close()
ListenerClose ==
    /\ pc.listener = "gotSignal" /\ ~pc.exited
    /\ DoClose
    /\ pc' = [pc EXCEPT !.listener = "closed"]
    /\ UNCHANGED <<swState, enableCompress, lastWriteTime, written, cfg, stream, inp, out>>

\* the listener calls os.Exit(0)
ListenerExit ==
    /\ pc.listener = "closed" /\ ~pc.exited
    /\ pc' = [pc EXCEPT !.exited = TRUE]
    /\ UNCHANGED <<file, writerVars, written, fixLog, closeCalls, cfg, stream, inp, out>>

\* the goroutine of initAsciinema: on os.Interrupt, showCursorBack and os.Exit(1)
InitHandlerExit ==
    /\ pc.sig = "SIGINT" /\ ~pc.exited
    /\ pc' = [pc EXCEPT !.exited = TRUE, !.byInit = TRUE]
    /\ UNCHANGED <<file, writerVars, written, fixLog, closeCalls, cfg, stream, inp, out>>

\* the device stops accepting writes (no space left): every later write fails
DiskFull ==
    /\ pc.main = "recording" /\ ~pc.exited
    /\ handle = "open"
    /\ handle' = "full"
    /\ UNCHANGED <<file, swState, enableCompress, batchFrames, totalDataSize, lastWriteTime,
                   written, fixLog, closeCalls, cfg, stream, pc, inp, out>>

RInit ==
    /\ file = <<>>
    /\ handle = "none"
    /\ swState = "none"
    /\ enableCompress = TRUE
    /\ batchFrames = <<>>
    /\ totalDataSize = 0
    /\ lastWriteTime = 0
    /\ written = <<>>
    /\ fixLog = <<>>
    /\ closeCalls = 0
    /\ cfg \in [DisableCompress : BOOLEAN, MaxWait : {1000}]
    /\ stream = NewStream(cfg.MaxWait)
    /\ pc = [main |-> "start", listener |-> "waiting", sig |-> "none", exited |-> FALSE,
             byInit |-> FALSE, err |-> FALSE, done |-> FALSE, panics |-> 0]
    /\ inp = <<>>
    /\ out = <<>>

RNext ==
    \/ RecStart
    \/ RecWrite
    \/ DiskFull
    \/ RecReturn
    \/ RecFix
    \/ RecDeferred
    \/ Signal
    \/ ListenerRecv
    \/ ListenerDone
    \/ ListenerClose
    \/ ListenerExit
    \/ InitHandlerExit

SpecRec == RInit /\ [][RNext]_vars

(***************************************************************************)
(* Frame codec round trip: a frame is encoded, the line is decoded         *)
(***************************************************************************)
PayE == <<195, 169>>
CodecTimes == {0, 5, 1500}
CodecRawPayloads == {<<>>, PayA, PayB, PayE, PayExit, <<34, 92>>}
CodecBlockPayloads == {Base64Encode(compressData(PayA)), Base64Encode(compressData(PayB)),
                       Base64Encode(compressData(PayA \o PayA \o PayE))}
CodecSpans == {0, 7}

\* frames the recorder builds: raw frames without EndTime, blocks with EndTime >= Time
CodecFrames ==
    {RawFrame(t, d) : t \in CodecTimes, d \in CodecRawPayloads}
    \cup {Frame(t, KindZ, d, t + e) : t \in CodecTimes, d \in CodecBlockPayloads, e \in CodecSpans}

\* f.MarshalJSON()
Encode ==
    /\ pc = "frame"
    /\ out' = MarshalJSON(inp)
    /\ pc' = "encoded"
    /\ UNCHANGED <<file, writerVars, written, fixLog, closeCalls, cfg, stream, inp>>

\* (&Frame{}).UnmarshalJSON(line)
Decode ==
    /\ pc = "encoded"
    /\ out' = UnmarshalJSON(out, ZeroFrame)
    /\ pc' = "decoded"
    /\ UNCHANGED <<file, writerVars, written, fixLog, closeCalls, cfg, stream, inp>>

CInit ==
    /\ file = <<>>
    /\ handle = "none"
    /\ swState = "none"
    /\ enableCompress = TRUE
    /\ batchFrames = <<>>
    /\ totalDataSize = 0
    /\ lastWriteTime = 0
    /\ written = <<>>
    /\ fixLog = <<>>
    /\ closeCalls = 0
    /\ cfg = [DisableCompress |-> FALSE, MaxWait |-> 1000]
    /\ stream = NewStream(cfg.MaxWait)
    /\ pc = "frame"
    /\ inp \in CodecFrames
    /\ out = <<>>

CNext == Encode \/ Decode

SpecCodec == CInit /\ [][CNext]_vars

(***************************************************************************)
(* The repair pass applied to files of its contract: a header line, frame  *)
(* lines that parse, and possibly one unparsable last line                 *)
(***************************************************************************)
FixLines == {RawLine(10, PayA), RawLine(20, PayExit), RawLine(1500, PayB),
             MarshalJSON(Frame(30, KindZ, Base64Encode(compressData(PayA \o PayA)), 40))}
FixDurations == {0, 77}
MaxFixLines == 3
MaxPasses == 2

RECURSIVE SeqsUpTo(_, _)
\* all sequences over S of length at most n
SeqsUpTo(S, n) ==
    IF n = 0 THEN {<<>>}
    ELSE SeqsUpTo(S, n - 1)
         \cup {Append(q, x) : q \in {r \in SeqsUpTo(S, n - 1) : Len(r) = n - 1}, x \in S}

FixFiles ==
    {<<HeaderLine(d)>> \o body \o tail :
        d \in FixDurations, body \in SeqsUpTo(FixLines, MaxFixLines),
        tail \in {<<>>, <<TruncLine>>}}

\* one more FixCast(path) on the file
Repair ==
    /\ pc = "repair"
    /\ Len(out) < MaxPasses
    /\ file' = FixCast(file)
    /\ out' = Append(out, FixCast(file))
    /\ UNCHANGED <<writerVars, written, fixLog, closeCalls, cfg, stream, pc, inp>>

FInit ==
    /\ inp \in FixFiles
    /\ file = inp
    /\ handle = "none"
    /\ swState = "none"
    /\ enableCompress = TRUE
    /\ batchFrames = <<>>
    /\ totalDataSize = 0
    /\ lastWriteTime = 0
    /\ written = <<>>
    /\ fixLog = <<>>
    /\ closeCalls = 0
    /\ cfg = [DisableCompress |-> FALSE, MaxWait |-> 1000]
    /\ stream = NewStream(cfg.MaxWait)
    /\ pc = "repair"
    /\ out = <<>>

FNext == Repair

SpecFix == FInit /\ [][FNext]_vars

(***************************************************************************)
(* End-to-end session: 50 identical 10-byte writes 0.01 s apart, then one  *)
(* 6000-byte write, through the streaming writer at its default settings   *)
(***************************************************************************)
SmallCount == 50
SmallLen == 10
BigLen == 6000
StepMs == 10

SmallPayloads == {[i \in 1..SmallLen |-> 97], [i \in 1..SmallLen |-> 96 + i],
                  [i \in 1..SmallLen |-> 97 + (i % 2)]}
\* a 6000-byte write unlike the small ones: one that repeats, one that does not
BigPayloads == {[i \in 1..BigLen |-> 65 + (i % 6)], [i \in 1..BigLen |-> 33 + ((i * i) % 89)]}

\* the k-th write of the session inp = [small, big]
sessionFrame(k) ==
    RawFrame(StepMs * k, IF k <= SmallCount THEN inp.small ELSE inp.big)

\* the recording starts: NewStreamWriter with the defaults
E2EOpen ==
    /\ pc = "session"
    /\ NewStreamWriter
    /\ UNCHANGED <<written, fixLog, closeCalls, cfg, stream, pc, inp, out>>

\* the next write of the session reaches WriteFrame
E2EWrite ==
    /\ pc = "session"
    /\ swState = "ok"
    /\ closeCalls = 0
    /\ Len(written) < SmallCount + 1
    /\ DoWriteFrame(sessionFrame(Len(written) + 1))
    /\ UNCHANGED <<handle, swState, enableCompress, fixLog, closeCalls, cfg, stream, pc, inp, out>>

\* the session ends: Close
E2EClose ==
    /\ pc = "session"
    /\ swState = "ok"
    /\ closeCalls = 0
    /\ Len(written) = SmallCount + 1
    /\ DoClose
    /\ UNCHANGED <<swState, enableCompress, lastWriteTime, written, cfg, stream, pc, inp, out>>

EInit ==
    /\ file = <<>>
    /\ handle = "none"
    /\ swState = "none"
    /\ enableCompress = TRUE
    /\ batchFrames = <<>>
    /\ totalDataSize = 0
    /\ lastWriteTime = 0
    /\ written = <<>>
    /\ fixLog = <<>>
    /\ closeCalls = 0
    /\ cfg = [DisableCompress |-> FALSE, MaxWait |-> 1000]
    /\ stream = NewStream(cfg.MaxWait)
    /\ pc = "session"
    /\ inp \in [small : SmallPayloads, big : BigPayloads]
    /\ out = <<>>

ENext == E2EOpen \/ E2EWrite \/ E2EClose

SpecE2E == EInit /\ [][ENext]_vars

(***************************************************************************)
(* The grouping of one flush: a batch of at least minBatchSize frames is   *)
(* partitioned, then its groups are merged                                 *)
(***************************************************************************)
PayHalf == <<97, 98, 120, 121>>
PayOther == <<120, 121, 120, 121, 120, 121, 120, 121>>
GroupPayloads == {<<>>, PayA, PayHalf, PayOther}
GroupGaps == {0, 999, 1000, 2000}
MaxBatchLen == 4

RECURSIVE timeAt(_, _)
\* time of frame k of a batch: the first at time 0, each next one a gap later
timeAt(gs, k) == IF k = 1 THEN 0 ELSE timeAt(gs, k - 1) + gs[k]

\* the batch of n frames with payloads ps[1..n] and gaps gs[2..n]
batchOf(ps, gs, n) == [k \in 1..n |-> RawFrame(timeAt(gs, k), ps[k])]

\* a full batch of maxBatchSize frames, gap g apart, payloads pa and pb in turn
fullBatch(pa, pb, g) ==
    [k \in 1..maxBatchSize |-> RawFrame((k - 1) * g, IF k % 2 = 1 THEN pa ELSE pb)]

\* the grouping loop of flushBatchFrames
Partition ==
    /\ pc = "batch"
    /\ out' = [initial |-> initialGroups(inp), final |-> <<>>]
    /\ pc' = "partitioned"
    /\ UNCHANGED <<file, writerVars, written, fixLog, closeCalls, cfg, stream, inp>>

\* the merge of the groups (when there is more than one)
Merge ==
    /\ pc = "partitioned"
    /\ out' = [out EXCEPT !.final = mergeIfSeveral(out.initial)]
    /\ pc' = "merged"
    /\ UNCHANGED <<file, writerVars, written, fixLog, closeCalls, cfg, stream, inp>>

GInit ==
    /\ file = <<>>
    /\ handle = "none"
    /\ swState = "none"
    /\ enableCompress = TRUE
    /\ batchFrames = <<>>
    /\ totalDataSize = 0
    /\ lastWriteTime = 0
    /\ written = <<>>
    /\ fixLog = <<>>
    /\ closeCalls = 0
    /\ cfg = [DisableCompress |-> FALSE, MaxWait |-> 1000]
    /\ stream = NewStream(cfg.MaxWait)
    /\ pc = "batch"
    /\ \/ \E n \in minBatchSize..MaxBatchLen :
            \E ps \in [1..n -> GroupPayloads], gs \in [2..n -> GroupGaps] :
               inp = batchOf(ps, gs, n)
       \/ \E pa \in GroupPayloads, pb \in GroupPayloads, g \in GroupGaps :
            inp = fullBatch(pa, pb, g)
    /\ out = <<>>

GNext == Partition \/ Merge

SpecGroup == GInit /\ [][GNext]_vars

(***************************************************************************)
(* The compression decision for one final group of minBatchSize frames     *)
(* whose payloads total S bytes and compress to about C bytes              *)
(***************************************************************************)
DecideSizes == {1000, 1023, 1024, 1025, 8191, 8192, 8193}

\* S bytes: a run of r equal bytes, then bytes without a short period
decideData(S, r) == [i \in 1..S |-> IF i <= r THEN 97 ELSE 33 + ((i * i) % 89)]

\* a group of minBatchSize frames over the bytes d: one byte each, the rest in the last
decideGroup(d) ==
    [k \in 1..minBatchSize |->
        RawFrame(10 * k, IF k < minBatchSize THEN <<d[k]>> ELSE SubSeq(d, minBatchSize, Len(d)))]

\* groups whose compressed size lies next to 85 %, 90 % and 95 % of the original size
DecideGroups ==
    {decideGroup(decideData(S, S + 23 - (((pct * S) \div 100) + e))) :
        S \in DecideSizes, pct \in {85, 90, 95}, e \in {-1, 0, 1}}

\* the per-group step of flushBatchFrames on a final group
Decide ==
    /\ pc = "group"
    /\ out' = groupLines(inp)
    /\ pc' = "decided"
    /\ UNCHANGED <<file, writerVars, written, fixLog, closeCalls, cfg, stream, inp>>

DInit ==
    /\ file = <<>>
    /\ handle = "none"
    /\ swState = "none"
    /\ enableCompress = TRUE
    /\ batchFrames = <<>>
    /\ totalDataSize = 0
    /\ lastWriteTime = 0
    /\ written = <<>>
    /\ fixLog = <<>>
    /\ closeCalls = 0
    /\ cfg = [DisableCompress |-> FALSE, MaxWait |-> 1000]
    /\ stream = NewStream(cfg.MaxWait)
    /\ pc = "group"
    /\ inp \in DecideGroups
    /\ out = <<>>

DNext == Decide

SpecDecide == DInit /\ [][DNext]_vars

(***************************************************************************)
(* Decoding one line on its own                                            *)
(***************************************************************************)
\* JSON values of a line: numbers, strings, and null or an absent key
DecodeValues == {Num(15), Str(<<111>>), Str(<<104, 105>>), NoneVal}

\* positional lines of up to 3 values, keyed lines, a header and a cut-off line
DecodeLines ==
    {ArrLine(v) : v \in SeqsUpTo(DecodeValues, 3)}
        \cup {ObjLine(a, b, c, d) : a \in DecodeValues, b \in DecodeValues,
                                    c \in DecodeValues, d \in {NoneVal, Num(15)}}
        \cup {HeaderLine(0), TruncLine}

\* every such line as the writer produces it, and after one space
PaddedLines == {Padded(l, n) : l \in DecodeLines, n \in {0, 1}}

\* json.Unmarshal of the line into a zero Frame
DecodeLine ==
    /\ pc = "line"
    /\ out' = UnmarshalJSON(inp, ZeroFrame)
    /\ pc' = "lineDecoded"
    /\ UNCHANGED <<file, writerVars, written, fixLog, closeCalls, cfg, stream, inp>>

LInit ==
    /\ file = <<>>
    /\ handle = "none"
    /\ swState = "none"
    /\ enableCompress = TRUE
    /\ batchFrames = <<>>
    /\ totalDataSize = 0
    /\ lastWriteTime = 0
    /\ written = <<>>
    /\ fixLog = <<>>
    /\ closeCalls = 0
    /\ cfg = [DisableCompress |-> FALSE, MaxWait |-> 1000]
    /\ stream = NewStream(cfg.MaxWait)
    /\ pc = "line"
    /\ inp \in PaddedLines
    /\ out = <<>>

LNext == DecodeLine

SpecDecode == LInit /\ [][LNext]_vars

(***************************************************************************)
(* AsciicastPlayer.Play (terminal/player.go).  Times are in ms; the speed  *)
(* is kept as twice its value so that 0.5x, 1x and 2x are integers.        *)
(*   inp : [frames, speedX2]                                               *)
(*   pc  : [i, adj, ret]  next frame, timeAdjustment, "running"|"nil"|"err"*)
(*   out : one record per loop iteration                                   *)
(***************************************************************************)
MaxPlayFrames == 3
PlayGaps == {-5, 15}
PlaySpeedsX2 == {2, 4}
ProcTimes == {3, 20}

\* payloads of the frames played: raw output, a block that decodes, a payload
\* that is no base64 text, and base64 text of bytes that are no gzip stream
PlayKinds ==
    {[k |-> KindO, data |-> PayA],
     [k |-> KindZ, data |-> Base64Encode(compressData(PayA \o PayA))],
     [k |-> KindZ, data |-> <<33>>],
     [k |-> KindZ, data |-> Base64Encode(<<1, 2, 3>>)]}

RECURSIVE castsOf(_)
\* casts of n frames; the first frame is at 10 ms, later ones a gap after the last
castsOf(n) ==
    IF n = 1 THEN {<<Frame(10, fk.k, fk.data, 0)>> : fk \in PlayKinds}
    ELSE {Append(c, Frame(c[Len(c)].Time + g, fk.k, fk.data, 0)) :
             c \in castsOf(n - 1), fk \in PlayKinds, g \in PlayGaps}

\* time.Duration(float64(delay)*1000/speed) * time.Millisecond: whole milliseconds
sleepTime(frames, i, speedX2) ==
    IF i > 1 THEN (Max(0, frames[i].Time - frames[i - 1].Time) * 2) \div speedX2 ELSE 0

\* time.Sleep(sleepTime - timeAdjustment) when sleepTime > timeAdjustment
sleepFor(st, adj) == IF st > adj THEN st - adj ELSE 0

\* the data of frame fr, or the decoding failure
frameData(fr) ==
    IF fr.EventType = KindZ THEN processCompressedFrame(fr)
    ELSE [err |-> FALSE, data |-> fr.EventData]

iteration(i, slept, res, data, p) ==
    [i |-> i, slept |-> slept, res |-> res, data |-> data, p |-> p]

\* mutant of handleFrame: a block that does not decode ends the playback
handleFrame_FatalDecode(i, slept, d, sinkFails, p) ==
    IF d.err \/ sinkFails
    THEN /\ out' = Append(out, iteration(i, slept, IF d.err THEN "skipped" ELSE "failed", <<>>, 0))
         /\ pc' = [pc EXCEPT !.ret = "err"]
    ELSE /\ out' = Append(out, iteration(i, slept, "written", d.data, p))
         /\ pc' = [pc EXCEPT !.i = i + 1, !.adj = p]

\* the rest of an iteration once the sleep is over: skip, failed write, or write
handleFrame(i, slept, d, sinkFails, p) ==
    IF d.err
    THEN /\ out' = Append(out, iteration(i, slept, "skipped", <<>>, 0))
         /\ pc' = [pc EXCEPT !.i = i + 1]
    ELSE IF sinkFails
    THEN /\ out' = Append(out, iteration(i, slept, "failed", <<>>, 0))
         /\ pc' = [pc EXCEPT !.ret = "err"]
    ELSE /\ out' = Append(out, iteration(i, slept, "written", d.data, p))
         /\ pc' = [pc EXCEPT !.i = i + 1, !.adj = p]

\* one iteration of the loop of Play
PlayFrame ==
    /\ pc.ret = "running"
    /\ pc.i <= Len(inp.frames)
    /\ \E sinkFails \in BOOLEAN, p \in ProcTimes :
         handleFrame(pc.i, sleepFor(sleepTime(inp.frames, pc.i, inp.speedX2), pc.adj),
                     frameData(inp.frames[pc.i]), sinkFails, p)
    /\ UNCHANGED <<file, writerVars, written, fixLog, closeCalls, cfg, stream, inp>>

\* the loop is over: return nil
PlayReturn ==
    /\ pc.ret = "running"
    /\ pc.i > Len(inp.frames)
    /\ pc' = [pc EXCEPT !.ret = "nil"]
    /\ UNCHANGED <<file, writerVars, written, fixLog, closeCalls, cfg, stream, inp, out>>

PInit ==
    /\ file = <<>>
    /\ handle = "none"
    /\ swState = "none"
    /\ enableCompress = TRUE
    /\ batchFrames = <<>>
    /\ totalDataSize = 0
    /\ lastWriteTime = 0
    /\ written = <<>>
    /\ fixLog = <<>>
    /\ closeCalls = 0
    /\ cfg = [DisableCompress |-> FALSE, MaxWait |-> 1000]
    /\ stream = NewStream(cfg.MaxWait)
    /\ pc = [i |-> 1, adj |-> 0, ret |-> "running"]
    /\ inp \in [frames : castsOf(MaxPlayFrames), speedX2 : PlaySpeedsX2]
    /\ out = <<>>

PNext == PlayFrame \/ PlayReturn

SpecPlay == PInit /\ [][PNext]_vars

(***************************************************************************)
(* WriteFrame with its flush triggers and its sync policy: a run of small  *)
(* frames 0.5 s apart, then a few frames of any kind.                      *)
(*   pc  : number of freely chosen frames written so far                   *)
(*   out : [now, lastSyncTime, syncs]  wall clock (ms), sw.lastSyncTime,   *)
(*         and the wall-clock times at which WriteFrame called file.Sync   *)
(***************************************************************************)
DefaultSyncMs == 500
MaxRun == 31
BatchFree == 3

\* what a WriteFrame call gets: payload length, recording-time gap, wall-clock gap
RunChoice == [len |-> 1, dt |-> 500, wall |-> 200]
BatchChoices ==
    {[len |-> n, dt |-> g.dt, wall |-> g.wall] :
        n \in {1, 4093}, g \in {[dt |-> 500, wall |-> 200], [dt |-> 1600, wall |-> 500]}}

\* lengths of the run of small frames after which other frames may follow
RunStops == {0, 3, 4, MaxRun}

\* sw.syncIntervalMs after the override of Runner.Rec
syncIntervalMs(c) == IF c.SyncInterval > 0 THEN c.SyncInterval ELSE DefaultSyncMs

\* mutant of syncDue: every WriteFrame syncs
syncDue_Always(now, last, interval) == TRUE

\* currentTime - sw.lastSyncTime >= sw.syncIntervalMs
syncDue(now, last, interval) == now - last >= interval

\* the sync step at the end of a WriteFrame that did not return early
syncAfter(o, now, interval) ==
    IF syncDue(now, o.lastSyncTime, interval)
    THEN [now |-> now, lastSyncTime |-> now, syncs |-> Append(o.syncs, now)]
    ELSE [o EXCEPT !.now = now]

\* one WriteFrame call with result r at wall-clock time now
timedWrite(r, frame, now) ==
    /\ applyWrite(r, frame)
    /\ out' = IF r.err THEN [out EXCEPT !.now = now]
              ELSE syncAfter(out, now, syncIntervalMs(cfg))

\* the recording hands the next frame to WriteFrame
TimedWrite ==
    /\ swState = "ok"
    /\ \E c \in BatchChoices :
         /\ IF pc = 0 /\ c = RunChoice /\ Len(written) < MaxRun
            THEN pc' = pc
            ELSE /\ pc < BatchFree
                 /\ pc = 0 => Len(written) \in RunStops
                 /\ pc' = pc + 1
         /\ timedWrite(WriteFrameResult(batchFrames, totalDataSize, lastWriteTime,
                                        enableCompress,
                                        RawFrame(lastTime + c.dt, [i \in 1..c.len |-> 97]),
                                        budgetNow),
                       RawFrame(lastTime + c.dt, [i \in 1..c.len |-> 97]),
                       out.now + c.wall)
    /\ UNCHANGED <<handle, swState, enableCompress, fixLog, closeCalls, cfg, stream, inp>>

\* NewStreamWriter in Rec, with lastSyncTime 0
BatchStart ==
    /\ NewStreamWriter
    /\ UNCHANGED <<written, fixLog, closeCalls, cfg, stream, pc, inp, out>>

BInit ==
    /\ file = <<>>
    /\ handle = "none"
    /\ swState = "none"
    /\ enableCompress = TRUE
    /\ batchFrames = <<>>
    /\ totalDataSize = 0
    /\ lastWriteTime = 0
    /\ written = <<>>
    /\ fixLog = <<>>
    /\ closeCalls = 0
    /\ cfg \in [DisableCompress : BOOLEAN, MaxWait : {1000}, SyncInterval : {0, 300}]
    /\ stream = NewStream(cfg.MaxWait)
    /\ pc = 0
    /\ inp = <<>>
    /\ out = [now |-> 1000000, lastSyncTime |-> 0, syncs |-> <<>>]

BNext == BatchStart \/ TimedWrite

SpecBatch == BInit /\ [][BNext]_vars

(***************************************************************************)
(* flushBatchFrames with a failing compressData or json.Marshal.  Neither  *)
(* can fail on an in-memory buffer or on a Frame, so the failure is an     *)
(* input: faults[i] is what fails while group i is processed.  A batch of  *)
(* more than maxBatchSize frames (left behind by a failed flush) is what   *)
(* makes the merge step keep two groups.                                   *)
(***************************************************************************)
FaultKinds == {"none", "compress", "marshal"}
FallbackPayloads == {PayA, PayB, <<104, 105>>}
FirstRuns == {4, 29}
SecondRuns == {0, 4}

\* n1 frames of payload p1 0.01 s apart, 1.21 s of silence, n2 frames of payload p2
twoRuns(n1, p1, n2, p2) ==
    [i \in 1..(n1 + n2) |->
        IF i <= n1 THEN RawFrame(10 * i, p1)
        ELSE RawFrame(10 * n1 + 1200 + 10 * (i - n1), p2)]

\* the lines of one group when `fault` fails: both failures degrade to raw lines
groupLinesOr(group, all, fault) ==
    IF Len(group) < minBatchSize THEN rawLines(group)
    ELSE IF fault = "compress" THEN rawLines(group)
    ELSE IF fault = "marshal" /\ worthCompressing(Len(compressData(all)), Len(all))
         THEN rawLines(group)
    ELSE compressGroup(group, all)

\* the lines of every final group, group by group
flushSegments(groups, faults) ==
    [i \in 1..Len(groups) |-> groupLinesOr(groups[i], groupData(groups[i]), faults[i])]

\* flushBatchFrames on the pending batch with the faults of inp, no write failing
FlushWithFaults ==
    /\ pc = "pending"
    /\ pc' = "flushed"
    /\ out' = [segs |-> flushSegments(finalGroups(batchFrames), inp.faults), err |-> FALSE]
    /\ file' = file \o Concat(out'.segs)
    /\ batchFrames' = <<>>
    /\ totalDataSize' = 0
    /\ UNCHANGED <<handle, swState, enableCompress, lastWriteTime, written, fixLog,
                   closeCalls, cfg, stream, inp>>

XInit ==
    /\ file = <<>>
    /\ handle = "open"
    /\ swState = "ok"
    /\ enableCompress = TRUE
    /\ written = <<>>
    /\ fixLog = <<>>
    /\ closeCalls = 0
    /\ cfg = [DisableCompress |-> FALSE, MaxWait |-> 1000]
    /\ stream = NewStream(cfg.MaxWait)
    /\ pc = "pending"
    /\ \E n1 \in FirstRuns, n2 \in SecondRuns, p1 \in FallbackPayloads, p2 \in FallbackPayloads :
         /\ batchFrames = twoRuns(n1, p1, n2, p2)
         /\ \E fs \in [1..2 -> FaultKinds] : inp = [batch |-> batchFrames, faults |-> fs]
    /\ totalDataSize = Len(groupData(batchFrames))
    /\ lastWriteTime = batchFrames[Len(batchFrames)].Time
    /\ out = [segs |-> <<>>, err |-> FALSE]

XNext == FlushWithFaults

SpecFallback == XInit /\ [][XNext]_vars

(***************************************************************************)
(* Runner.Rec: how the CompressRatio setting becomes a group size.  The    *)
(* streaming path stores it in StreamWriter.batchSize, the bulk path       *)
(* computes targetBatchSize from it.                                       *)
(***************************************************************************)
MaxRatio == 70
defaultBatchSize == 8
bulkMinBatchSize == 4
bulkMaxBatchSize == 64
bulkDefaultTarget == 16

\* streamWriter.batchSize after NewStreamWriter and the CompressRatio override
streamingBatchSize(ratio) == IF ratio > 0 THEN ratio ELSE defaultBatchSize

\* targetBatchSize of the bulk path
bulkTargetBatchSize(ratio) ==
    IF ratio > 0
    THEN (IF ratio < bulkMinBatchSize THEN bulkMinBatchSize
          ELSE IF ratio > bulkMaxBatchSize THEN bulkMaxBatchSize ELSE ratio)
    ELSE bulkDefaultTarget

\* Rec with StreamWrite: the writer is created and configured
ConfigureStreaming ==
    /\ pc = "new" /\ inp.path = "streaming"
    /\ NewStreamWriter
    /\ out' = [target |-> streamingBatchSize(inp.ratio), flushAt |-> maxBatchSize]
    /\ pc' = "configured"
    /\ UNCHANGED <<written, fixLog, closeCalls, cfg, stream, inp>>

\* Rec without StreamWrite: the sizes used to group cast.Stdout
ConfigureBulk ==
    /\ pc = "new" /\ inp.path = "bulk"
    /\ out' = [target |-> bulkTargetBatchSize(inp.ratio), flushAt |-> bulkMaxBatchSize]
    /\ pc' = "configured"
    /\ UNCHANGED <<file, writerVars, written, fixLog, closeCalls, cfg, stream, inp>>

KInit ==
    /\ file = <<>>
    /\ handle = "none"
    /\ swState = "none"
    /\ enableCompress = TRUE
    /\ batchFrames = <<>>
    /\ totalDataSize = 0
    /\ lastWriteTime = 0
    /\ written = <<>>
    /\ fixLog = <<>>
    /\ closeCalls = 0
    /\ cfg = [DisableCompress |-> FALSE, MaxWait |-> 1000]
    /\ stream = NewStream(cfg.MaxWait)
    /\ pc = "new"
    /\ inp \in [ratio : -2..MaxRatio, path : {"streaming", "bulk"}]
    /\ out = [target |-> 0, flushAt |-> 0]

KNext == ConfigureStreaming \/ ConfigureBulk

SpecRatio == KInit /\ [][KNext]_vars

(***************************************************************************)
(* Runner.Rec, bulk path: the recorded frames are partitioned and merged   *)
(* in one pass after the capture.  inp = [frames, ratio].                  *)
(***************************************************************************)
bulkGroupBytes == 32768
BulkRatios == {0, 2, 8, 16, 32, 33, 40, 64, 100}
BulkFirstRuns == {1, 3, 40, 64, 70}
BulkSecondRuns == {1, 3, 40, 64}
BulkPauses == {400, 2000}

\* n1 frames of payload p1 0.01 s apart, a pause, n2 frames of payload p2
bulkRuns(n1, p1, pause, n2, p2) ==
    [i \in 1..(n1 + n2) |->
        IF i <= n1 THEN RawFrame(10 * i, p1)
        ELSE RawFrame(10 * n1 + pause + 10 * (i - n1 - 1), p2)]

\* "time close, content similar, group not full in frames nor in bytes"
bulkSameGroup(prev, f, cur) ==
    /\ f.Time - prev.Time < GroupGapMs
    /\ contentSimilar(f.EventData, prev.EventData)
    /\ Len(cur) < bulkMaxBatchSize
    /\ Len(groupData(cur)) < bulkGroupBytes

\* a group below the minimum still takes a frame that follows within 0.5 s
bulkKeepSmall(prev, f, cur) == Len(cur) < bulkMinBatchSize /\ f.Time - prev.Time < FloorMs

\* frame i joins the group that started at frame s and holds b[s..i-1]
bulkJoins(b, s, i) ==
    \/ bulkSameGroup(b[i - 1], b[i], SubSeq(b, s, i - 1))
    \/ bulkKeepSmall(b[i - 1], b[i], SubSeq(b, s, i - 1))

\* index of the first frame after s that starts a new group (Len(b) + 1: none)
bulkNextStart(b, s) ==
    IF \E i \in (s + 1)..Len(b) : ~bulkJoins(b, s, i)
    THEN CHOOSE i \in (s + 1)..Len(b) :
            ~bulkJoins(b, s, i) /\ \A j \in (s + 1)..(i - 1) : bulkJoins(b, s, j)
    ELSE Len(b) + 1

RECURSIVE bulkGroupFrom(_, _, _)
\* the grouping loop over cast.Stdout, taken one group at a time from frame s
bulkGroupFrom(b, s, groups) ==
    IF s > Len(b) THEN groups
    ELSE bulkGroupFrom(b, bulkNextStart(b, s),
                       Append(groups, SubSeq(b, s, bulkNextStart(b, s) - 1)))

bulkInitialGroups(b) == bulkGroupFrom(b, 1, <<>>)

\* the merged size up to which the bulk merge keeps adding groups
bulkMergeLimit(target) == target * 2

RECURSIVE bulkMergeFrom(_, _, _, _, _)
\* the merge loop over groups[i..]: optimizedGroups = opt, currentMergedGroup = cur
bulkMergeFrom(groups, i, opt, cur, target) ==
    IF i > Len(groups)
    THEN (IF Len(cur) > 0 THEN Append(opt, cur) ELSE opt)
    ELSE LET g == groups[i]
         IN  IF Len(cur) + Len(g) <= bulkMergeLimit(target)
             THEN bulkMergeFrom(groups, i + 1, opt, cur \o g, target)
             ELSE LET saved == IF Len(cur) > 0 THEN Append(opt, cur) ELSE opt
                  IN  IF Len(g) >= bulkMinBatchSize
                      THEN bulkMergeFrom(groups, i + 1, Append(saved, g), <<>>, target)
                      ELSE bulkMergeFrom(groups, i + 1, saved, g, target)

bulkMergeIfSeveral(groups, target) ==
    IF Len(groups) > 1 THEN bulkMergeFrom(groups, 1, <<>>, <<>>, target) ELSE groups

\* the grouping loop of the bulk path
BulkPartition ==
    /\ pc = "captured"
    /\ out' = [initial |-> bulkInitialGroups(inp.frames), final |-> <<>>]
    /\ pc' = "partitioned"
    /\ UNCHANGED <<file, writerVars, written, fixLog, closeCalls, cfg, stream, inp>>

\* the merge of the bulk path
BulkMerge ==
    /\ pc = "partitioned"
    /\ out' = [out EXCEPT !.final =
                  bulkMergeIfSeveral(out.initial, bulkTargetBatchSize(inp.ratio))]
    /\ pc' = "merged"
    /\ UNCHANGED <<file, writerVars, written, fixLog, closeCalls, cfg, stream, inp>>

UInit ==
    /\ file = <<>>
    /\ handle = "none"
    /\ swState = "none"
    /\ enableCompress = TRUE
    /\ batchFrames = <<>>
    /\ totalDataSize = 0
    /\ lastWriteTime = 0
    /\ written = <<>>
    /\ fixLog = <<>>
    /\ closeCalls = 0
    /\ cfg = [DisableCompress |-> FALSE, MaxWait |-> 1000]
    /\ stream = NewStream(cfg.MaxWait)
    /\ pc = "captured"
    /\ \E n1 \in BulkFirstRuns, n2 \in BulkSecondRuns, pause \in BulkPauses,
          p2 \in {PayA, PayOther}, ratio \in BulkRatios :
         inp = [frames |-> bulkRuns(n1, PayA, pause, n2, p2), ratio |-> ratio]
    /\ out = [initial |-> <<>>, final |-> <<>>]

UNext == BulkPartition \/ BulkMerge

SpecBulk == UInit /\ [][UNext]_vars

(***************************************************************************)
(* Runner.Play: loadFile reads the recording, then the player replays it   *)
(* with the value of r.MaxWait handed to PlayCommand.Execute.              *)
(*   pc.ret : "start" | "running" | "nil" | "err"                          *)
(***************************************************************************)
PlayMaxWait == 3
MaxLoadLines == 3
LoadGaps == {15, 12000}
LoadKinds == {"raw", "cut", "long"}

RECURSIVE loadTime(_, _)
\* time of line k: each line a gap after its predecessor
loadTime(gs, k) == IF k = 0 THEN 0 ELSE loadTime(gs, k - 1) + gs[k]

\* line k of a recording: a short raw line, a cut-off line, or a raw line made
\* longer than the Scanner's buffer by the white space in front of it
loadLine(kind, t) ==
    IF kind = "cut" THEN TruncLine
    ELSE IF kind = "long" THEN Padded(RawLine(t, PayA), MaxScanTokenSize)
    ELSE RawLine(t, PayA)

\* Runner.Play up to the call of the player: loadFile, MaxWait = 3.0, Execute
RunnerPlay ==
    /\ pc.ret = "start"
    /\ inp' = [frames |-> loadFrames(file), speedX2 |-> 2 * PlayMaxWait]
    /\ pc' = [pc EXCEPT !.ret = "running"]
    /\ UNCHANGED <<file, writerVars, written, fixLog, closeCalls, cfg, stream, out>>

YInit ==
    /\ handle = "none"
    /\ swState = "none"
    /\ enableCompress = TRUE
    /\ batchFrames = <<>>
    /\ totalDataSize = 0
    /\ lastWriteTime = 0
    /\ written = <<>>
    /\ fixLog = <<>>
    /\ closeCalls = 0
    /\ cfg = [DisableCompress |-> FALSE, MaxWait |-> 1000]
    /\ stream = NewStream(cfg.MaxWait)
    /\ pc = [i |-> 1, adj |-> 0, ret |-> "start"]
    /\ \E n \in 1..MaxLoadLines :
         \E ks \in [1..n -> LoadKinds], gs \in [1..n -> LoadGaps] :
            file = <<HeaderLine(0)>> \o [k \in 1..n |-> loadLine(ks[k], loadTime(gs, k))]
    /\ inp = [frames |-> <<>>, speedX2 |-> 2]
    /\ out = <<>>

YNext == RunnerPlay \/ PlayFrame \/ PlayReturn

SpecRunPlay == YInit /\ [][YNext]_vars

(***************************************************************************)
(* The writer on a file whose writes can fail for a while (a full disk     *)
(* that is freed again, an interrupted write): the failing call writes     *)
(* `budget` lines and then gets a write error; later calls succeed.        *)
(***************************************************************************)
MaxRetryFrames == 6
MaxFaults == 1
FaultBudgets == {1, 2}

\* write budget of one call: a fault that leaves b lines, or none
faultOr(b) == IF b \in FaultBudgets THEN b ELSE NoFail

\* WriteFrame, the write error (if any) arriving after b lines
WriteFrameFaulty ==
    /\ swState = "ok"
    /\ handle = "open"
    /\ Len(written) < MaxRetryFrames
    /\ \E k \in FrameKinds : \E b \in FaultBudgets \cup {NoFail} :
        /\ b \in FaultBudgets => inp < MaxFaults
        /\ LET r == WriteFrameResult(batchFrames, totalDataSize, lastWriteTime,
                                     enableCompress, RawFrame(lastTime + k.dt, k.data),
                                     faultOr(b))
           IN /\ applyWrite(r, RawFrame(lastTime + k.dt, k.data))
              /\ inp' = IF r.err THEN inp + 1 ELSE inp
    /\ UNCHANGED <<handle, swState, enableCompress, fixLog, closeCalls, cfg, stream, pc, out>>

\* Close, the write error (if any) arriving after b lines of its flush
CloseFaulty ==
    /\ swState = "ok"
    /\ handle = "open"
    /\ \E b \in FaultBudgets \cup {NoFail} :
        /\ b \in FaultBudgets => inp < MaxFaults
        /\ LET fl == IF enableCompress /\ Len(batchFrames) > 0
                     THEN flushBatchFrames(batchFrames, totalDataSize, enableCompress,
                                           faultOr(b))
                     ELSE noFlush(batchFrames, totalDataSize)
           IN /\ applyClose(fl)
              /\ inp' = IF fl.err THEN inp + 1 ELSE inp
    /\ UNCHANGED <<swState, enableCompress, lastWriteTime, written, cfg, stream, pc, out>>

TInit ==
    /\ file = <<>>
    /\ handle = "none"
    /\ swState = "none"
    /\ enableCompress = TRUE
    /\ batchFrames = <<>>
    /\ totalDataSize = 0
    /\ lastWriteTime = 0
    /\ written = <<>>
    /\ fixLog = <<>>
    /\ closeCalls = 0
    /\ cfg \in [DisableCompress : BOOLEAN, MaxWait : {2000}]
    /\ stream = NewStream(cfg.MaxWait)
    /\ pc = "writer"
    /\ inp = 0
    /\ out = <<>>

TNext ==
    \/ NewStreamWriter /\ UNCHANGED <<written, fixLog, closeCalls, cfg, stream, pc, inp, out>>
    \/ WriteFrameFaulty
    \/ CloseFaulty

SpecRetry == TInit /\ [][TNext]_vars

(***************************************************************************)
(* The writer's mutex. Rec runs the frame callback on the capture's        *)
(* goroutine and the signal listener on its own; each step below is one    *)
(* statement of WriteFrame or Close, so that the two can interleave        *)
(* wherever the mutex lets them. Rec's own code after the capture runs on  *)
(* the callback's side ("cb"), the listener is "sig".                     *)
(***************************************************************************)
MaxLockFrames == 5
MaxLockPanics == 1
LockFreeFrom == 4
LockKinds == {[data |-> PayB, dt |-> 10], [data |-> PayB, dt |-> 2000]}
Threads == {"cb", "sig"}

at(op, lbl, why) == [op |-> op, at |-> lbl, why |-> why]
Idle == at("idle", "idle", "none")

\* mutant of muFree: Lock never waits (no mutual exclusion)
muFree_Always(m) == TRUE

\* sw.mu.Lock() returns only when nobody holds the mutex
muFree(m) == m = "none"

\* mutant of unlockOnUnwind: Unlock is a plain last statement, skipped by a panic
unlockOnUnwind_Held(m) == m

\* `defer sw.mu.Unlock()`: the mutex after a panic has unwound WriteFrame
unlockOnUnwind(m) == "none"

\* sw.mu.Lock() in WriteFrame or Close
LockStep(t) ==
    /\ pc[t].at = "lock"
    /\ muFree(inp.mu)
    /\ inp' = [inp EXCEPT !.mu = t]
    /\ pc' = [pc EXCEPT ![t].at = "body"]
    /\ UNCHANGED <<file, writerVars, written, fixLog, closeCalls, cfg, stream, out>>

\* the capture hands the next frame to the callback, which calls WriteFrame
FrameArrives ==
    /\ pc.cb = Idle
    /\ ~pc.done
    /\ Len(written) < MaxLockFrames
    /\ \E k \in LockKinds :
         /\ Len(written) < LockFreeFrom => k.dt = 10
         /\ inp' = [inp EXCEPT !.frame = RawFrame(lastTime + k.dt, k.data)]
    /\ pc' = [pc EXCEPT !.cb = at("WriteFrame", "lock", "frame")]
    /\ UNCHANGED <<file, writerVars, written, fixLog, closeCalls, cfg, stream, out>>

\* what WriteFrame does with the frame in hand, computed in the critical section
frameResult ==
    WriteFrameResult(batchFrames, totalDataSize, lastWriteTime, enableCompress,
                     inp.frame, budgetNow)

\* what the flush of Close does, computed in the critical section
closeFlush ==
    IF enableCompress /\ Len(batchFrames) > 0
    THEN flushBatchFrames(batchFrames, totalDataSize, enableCompress, budgetNow)
    ELSE noFlush(batchFrames, totalDataSize)

\* the body of WriteFrame up to its file writes: batch bookkeeping, lines to write
WriteFrameBody ==
    /\ pc.cb = at("WriteFrame", "body", "frame")
    /\ batchFrames' = frameResult.batch
    /\ totalDataSize' = frameResult.total
    /\ lastWriteTime' = frameResult.lastT
    /\ written' = Append(written, [f |-> inp.frame, open |-> handle = "open",
                                   ok |-> ~frameResult.err])
    /\ inp' = [inp EXCEPT !.todo.cb = frameResult.lines]
    /\ pc' = [pc EXCEPT !.cb.at = "write"]
    /\ UNCHANGED <<file, handle, swState, enableCompress, fixLog, closeCalls, cfg, stream, out>>

\* WriteFrame panics while it holds the mutex: its deferred Unlock runs during
\* unwinding, then the callback's recover handler calls Close
WriteFramePanics ==
    /\ pc.cb = at("WriteFrame", "body", "frame")
    /\ pc.panics < MaxLockPanics
    /\ written' = Append(written, [f |-> inp.frame, open |-> handle = "open", ok |-> FALSE])
    /\ inp' = [inp EXCEPT !.mu = unlockOnUnwind(inp.mu)]
    /\ pc' = [pc EXCEPT !.cb = at("Close", "lock", "recover"), !.panics = pc.panics + 1]
    /\ UNCHANGED <<file, writerVars, fixLog, closeCalls, cfg, stream, out>>

\* one line write of the flush in progress (it fails on a closed handle)
WriteStep(t) ==
    /\ pc[t].at = "write"
    /\ inp.todo[t] # <<>>
    /\ IF handle = "open"
       THEN /\ file' = Append(file, Head(inp.todo[t]))
            /\ out' = Append(out, [by |-> t, call |-> pc[t].why,
                                    n |-> IF pc[t].op = "Close" THEN 0 ELSE Len(written)])
            /\ inp' = [inp EXCEPT !.todo[t] = Tail(inp.todo[t])]
       ELSE /\ inp' = [inp EXCEPT !.todo[t] = <<>>]
            /\ UNCHANGED <<file, out>>
    /\ UNCHANGED <<writerVars, written, fixLog, closeCalls, cfg, stream, pc>>

\* the writes are done: WriteFrame goes on to return, Close to Sync and file.Close
WritesDone(t) ==
    /\ pc[t].at = "write"
    /\ inp.todo[t] = <<>>
    /\ pc' = [pc EXCEPT ![t].at = IF pc[t].op = "Close" THEN "close" ELSE "unlock"]
    /\ UNCHANGED <<file, writerVars, written, fixLog, closeCalls, cfg, stream, inp, out>>

\* the body of Close up to its file writes: the flush of the pending batch
CloseBody(t) ==
    /\ pc[t].op = "Close"
    /\ pc[t].at = "body"
    /\ batchFrames' = closeFlush.batch
    /\ totalDataSize' = closeFlush.total
    /\ inp' = [inp EXCEPT !.todo[t] = closeFlush.lines]
    /\ pc' = [pc EXCEPT ![t].at = "write"]
    /\ UNCHANGED <<file, handle, swState, enableCompress, lastWriteTime, written, fixLog,
                   closeCalls, cfg, stream, out>>

\* Close: file.Sync, file.Close and FixCast, still inside the critical section
CloseFile(t) ==
    /\ pc[t].op = "Close"
    /\ pc[t].at = "close"
    /\ handle' = "closed"
    /\ file' = FixCast(file)
    /\ fixLog' = Append(fixLog, FixEntry(pc[t].why, Len(batchFrames), "closed"))
    /\ closeCalls' = closeCalls + 1
    /\ pc' = [pc EXCEPT ![t].at = "unlock"]
    /\ UNCHANGED <<swState, enableCompress, batchFrames, totalDataSize, lastWriteTime,
                   written, cfg, stream, inp, out>>

\* the deferred sw.mu.Unlock() of a returning WriteFrame or Close, and what the
\* caller does next: the callback returns, the recover handler and Rec go on to
\* FixCast, the listener to os.Exit
UnlockStep(t) ==
    /\ pc[t].at = "unlock"
    /\ inp' = [inp EXCEPT !.mu = "none"]
    /\ pc' = [pc EXCEPT ![t] = CASE pc[t].why = "frame" -> Idle
                                 [] pc[t].why = "signal" -> at("Exit", "exit", "signal")
                                 [] OTHER -> at("FixCast", "fix", pc[t].why)]
    /\ UNCHANGED <<file, writerVars, written, fixLog, closeCalls, cfg, stream, out>>

\* the capture returns: Rec closes `done`, then repairs the file
CaptureEnds ==
    /\ pc.cb = Idle
    /\ ~pc.done
    /\ pc' = [pc EXCEPT !.done = TRUE, !.cb = at("FixCast", "fix", "return")]
    /\ UNCHANGED <<file, writerVars, written, fixLog, closeCalls, cfg, stream, inp, out>>

\* FixCast(path) outside the mutex: after the capture (then the deferred Close
\* follows), after the recovery's Close, and after the deferred Close
FixStep ==
    /\ pc.cb.op = "FixCast"
    /\ file' = FixCast(file)
    /\ fixLog' = Append(fixLog, FixEntry(pc.cb.why, Len(batchFrames), handle))
    /\ pc' = [pc EXCEPT !.cb = CASE pc.cb.why = "return" -> at("Close", "lock", "defer")
                                 [] pc.cb.why = "recover" -> Idle
                                 [] OTHER -> at("returned", "returned", "none")]
    /\ UNCHANGED <<writerVars, written, closeCalls, cfg, stream, inp, out>>

\* SIGINT or SIGTERM reaches the listener, which calls Close
SignalArrives ==
    /\ pc.sig = at("select", "select", "none")
    /\ pc' = [pc EXCEPT !.sig = at("Close", "lock", "signal")]
    /\ UNCHANGED <<file, writerVars, written, fixLog, closeCalls, cfg, stream, inp, out>>

\* the listener sees `done` closed and returns
ListenerReturns ==
    /\ pc.sig = at("select", "select", "none")
    /\ pc.done
    /\ pc' = [pc EXCEPT !.sig = at("returned", "returned", "none")]
    /\ UNCHANGED <<file, writerVars, written, fixLog, closeCalls, cfg, stream, inp, out>>

\* os.Exit(0) in the listener ends every goroutine
ExitStep ==
    /\ pc.sig.op = "Exit"
    /\ pc' = [pc EXCEPT !.sig = at("exited", "exited", "none"),
                        !.cb = at("exited", "exited", "none")]
    /\ UNCHANGED <<file, writerVars, written, fixLog, closeCalls, cfg, stream, inp, out>>

MInit ==
    /\ file = <<HeaderLine(0)>>
    /\ handle = "open"
    /\ swState = "ok"
    /\ cfg \in [DisableCompress : BOOLEAN, MaxWait : {2000}]
    /\ enableCompress = ~cfg.DisableCompress
    /\ batchFrames = <<>>
    /\ totalDataSize = 0
    /\ lastWriteTime = 0
    /\ written = <<>>
    /\ fixLog = <<>>
    /\ closeCalls = 0
    /\ stream = NewStream(cfg.MaxWait)
    /\ pc = [cb |-> Idle, sig |-> at("select", "select", "none"), done |-> FALSE, panics |-> 0]
    /\ inp = [mu |-> "none", todo |-> [t \in Threads |-> <<>>], frame |-> RawFrame(0, <<>>)]
    /\ out = <<>>

\* the statements of the callback's goroutine and of Rec after the capture
CbRun ==
    \/ LockStep("cb")
    \/ WriteFrameBody
    \/ WriteFramePanics
    \/ WriteStep("cb")
    \/ WritesDone("cb")
    \/ CloseBody("cb")
    \/ CloseFile("cb")
    \/ UnlockStep("cb")
    \/ FixStep

\* the statements of the listener's goroutine
SigRun ==
    \/ LockStep("sig")
    \/ WriteStep("sig")
    \/ WritesDone("sig")
    \/ CloseBody("sig")
    \/ CloseFile("sig")
    \/ UnlockStep("sig")
    \/ ListenerReturns
    \/ ExitStep

MNext ==
    \/ FrameArrives
    \/ CaptureEnds
    \/ SignalArrives
    \/ CbRun
    \/ SigRun

SpecLock == MInit /\ [][MNext]_vars

(***************************************************************************)
(* Properties                                                              *)
(***************************************************************************)

\* every frame handed to WriteFrame so far was accepted on the open handle
allWritesClean == \A i \in 1..Len(written) : written[i].open /\ written[i].ok

\* C1: after WriteFrame calls followed by one Close, with no write error, the data
\* replayed from the file's frame lines (raw payloads and decompressed blocks, in
\* order) is exactly the concatenation of the payloads passed to WriteFrame.
C1_DataPreserved ==
    (swState = "ok" /\ closeCalls = 1 /\ allWritesClean) => fileData(file) = writtenData

\* C2: once NewStreamWriter has returned a writer, the first line of the file is the
\* header and no other line is a header, whatever WriteFrame, flush and Close did
\* since; when NewStreamWriter fails, no writer exists (nothing was written through
\* one) and the file handle is not left open.
C2_HeaderFirstOnce ==
    /\ swState = "ok" =>
         /\ Len(file) >= 1
         /\ file[1].shape = "header"
         /\ \A i \in 2..Len(file) : file[i].shape # "header"
    /\ swState = "failed" =>
         /\ handle # "open"
         /\ written = <<>>
         /\ \A i \in 1..Len(file) : file[i].shape \notin {"arr", "obj"}

\* C2 witness: a writer that flushed a compressed block and frames written raw
\* behind its header, and was closed.
C2_Witness ==
    /\ swState = "ok"
    /\ closeCalls >= 1
    /\ \E i, j \in 2..Len(file) : file[i].shape = "obj" /\ file[j].shape = "arr"

\* C3: every invocation of the repair pass happens after the flush and the close of
\* the handle: it finds no frame pending in the batch and the file handle closed.
C3_RepairAfterClose ==
    \A i \in 1..Len(fixLog) : fixLog[i].pending = 0 /\ fixLog[i].handle = "closed"

\* C4: when a signal arrived during the recording and the process has terminated
\* through os.Exit, the listener's Close (flush, sync, close, repair) has completed.
C4_CloseBeforeExit ==
    (pc.main # "start" /\ pc.sig # "none" /\ pc.exited) =>
        (pc.listener = "closed" /\ closeCalls >= 1 /\ handle = "closed")

\* a crashed recording: header, two frame lines that parse, a truncated last line
crashed(f) ==
    /\ Len(f) = 4
    /\ f[1].shape = "header"
    /\ f[2] \in FixLines
    /\ f[3] \in FixLines
    /\ f[4].shape = "trunc"

\* C5: the repair pass turns a crashed recording (header, 2 valid frame lines, one
\* truncated last line) into exactly the header and the 2 frames, every line
\* parseable, with the header's duration equal to the second frame's time.
C5_CrashRepair ==
    (pc = "repair" /\ crashed(inp) /\ Len(out) >= 1) =>
        /\ Len(out[1]) = 3
        /\ out[1][1].shape = "header"
        /\ out[1][2] = inp[2]
        /\ out[1][3] = inp[3]
        /\ \A i \in 1..3 : parses(out[1][i])
        /\ out[1][1].dur = frameOfLine(inp[3]).Time

\* C5 witness: a crashed recording was repaired and its header duration changed.
C5_Witness ==
    /\ pc = "repair"
    /\ crashed(inp)
    /\ Len(out) >= 1
    /\ out[1][1].dur # inp[1].dur
    /\ Len(file) = 3

C7_RoundTrip ==
    pc = "decoded" => (~out.err /\ out.f = inp)

\* payloads of the session's writes a..b, concatenated
sessionData(a, b) == Concat([k \in 1..(b - a + 1) |-> sessionFrame(a + k - 1).EventData])

\* the line is one compressed block that covers exactly the session's writes a..b
isBlock(line, a, b) ==
    /\ line.shape = "obj"
    /\ frameOfLine(line).EventType = KindZ
    /\ frameOfLine(line).Time = sessionFrame(a).Time
    /\ frameOfLine(line).EndTime = sessionFrame(b).Time
    /\ processCompressedFrame(frameOfLine(line)) = [err |-> FALSE, data |-> sessionData(a, b)]

sessionEnded == pc = "session" /\ swState = "ok" /\ closeCalls = 1

\* C8 (as stated): after the session and Close the frame lines are one compressed
\* block covering the 50 small writes, then one raw line for the 6000-byte write.
C8_BlockOf50ThenRaw ==
    sessionEnded =>
        /\ Len(file) = 3
        /\ isBlock(file[2], 1, SmallCount)
        /\ file[3] = RawLine(sessionFrame(SmallCount + 1).Time,
                             sessionFrame(SmallCount + 1).EventData)

\* C8 (amended): the first maxBatchSize small writes are flushed as one compressed
\* block when the batch fills; the other small writes and the 6000-byte write are
\* flushed by Close as one merged group, written as one compressed block when it
\* shrinks below the threshold and as raw lines, one per write, otherwise.
C8_BlockOf32ThenRest ==
    sessionEnded =>
        /\ Len(file) >= 3
        /\ isBlock(file[2], 1, maxBatchSize)
        /\ \/ Len(file) = 3 /\ isBlock(file[3], maxBatchSize + 1, SmallCount + 1)
           \/ /\ Len(file) = 2 + (SmallCount + 1 - maxBatchSize)
              /\ \A k \in (maxBatchSize + 1)..(SmallCount + 1) :
                    file[2 + k - maxBatchSize]
                        = RawLine(sessionFrame(k).Time, sessionFrame(k).EventData)

\* C8 witness: the session ended with two compressed blocks, the second holding the
\* 6000-byte write.
C8_Witness ==
    /\ sessionEnded
    /\ Len(written) = SmallCount + 1
    /\ Len(file) = 3
    /\ file[3].shape = "obj"

\* every two consecutive recorded frames are at most maxWait apart
gapsWithinMaxWait ==
    \A i \in 2..Len(stream.Frames) :
        stream.Frames[i].Time - stream.Frames[i - 1].Time <= cfg.MaxWait

\* C9 (as stated): for every configured maxWait > 0, consecutive recorded frames are
\* at most maxWait apart.
C9_GapCapped ==
    (pc = "stream" /\ cfg.MaxWait > 0) => gapsWithinMaxWait

\* C9 (amended): for every configured maxWait of at least the 0.5 s floor,
\* consecutive recorded frames are at most maxWait apart.
C9_GapCappedFromFloor ==
    (pc = "stream" /\ cfg.MaxWait >= FloorMs) => gapsWithinMaxWait

\* C9 witness: with maxWait = 1.0 s, a write 5 s after its predecessor was recorded
\* exactly 1.0 s after it.
C9_Witness ==
    /\ pc = "stream"
    /\ cfg.MaxWait = 1000
    /\ \E i \in 2..Len(stream.Frames) :
          stream.Frames[i].Time - stream.Frames[i - 1].Time = 1000

\* a streaming recording that ended normally: no error, no panic, no signal
endedNormally ==
    /\ pc.main = "done"
    /\ swState = "ok"
    /\ ~pc.err
    /\ pc.panics = 0
    /\ pc.sig = "none"
    /\ stream.closed

\* C10: when the last raw write of a capture is "exit\r\n", the recording persisted
\* by the streaming path holds one frame fewer than the raw writes: all payloads but
\* the last.
C10_ExitTrimmed ==
    (endedNormally /\ Len(written) >= 1 /\ written[Len(written)].f.EventData = PayExit) =>
        fileData(file) = Concat([i \in 1..(Len(written) - 1) |-> written[i].f.EventData])

RECURSIVE framesUpTo(_, _)
\* number of frames in the first k groups
framesUpTo(groups, k) == IF k = 0 THEN 0 ELSE framesUpTo(groups, k - 1) + Len(groups[k])

\* frames i and i+1 of the batch lie in different groups
splitAfter(groups, i) == \E k \in 1..(Len(groups) - 1) : framesUpTo(groups, k) = i

\* number of offsets, among the first n, at which a and b hold the same byte
equalBytes(a, b, n) == Cardinality({j \in 1..n : a[j] = b[j]})

\* the similarity score of a and b exceeds 0.5 (0 when either is empty)
scoreAboveHalf(a, b) ==
    /\ Len(a) > 0
    /\ Len(b) > 0
    /\ 2 * equalBytes(a, b, Min(Min(Len(a), Len(b)), 32)) > Min(Min(Len(a), Len(b)), 32)

\* frames i and i+1 of the batch: no equal byte at any common offset, 2.0 s apart
unrelatedPair(i) ==
    /\ equalBytes(inp[i].EventData, inp[i + 1].EventData,
                  Min(Len(inp[i].EventData), Len(inp[i + 1].EventData))) = 0
    /\ inp[i + 1].Time - inp[i].Time = 2000

\* C11 (as stated): two adjacent frames with no equal byte at any common offset and
\* a 2.0 s gap are never in the same group of a flush.
C11_NeverGrouped ==
    pc = "merged" =>
        \A i \in 1..(Len(inp) - 1) : unrelatedPair(i) => splitAfter(out.final, i)

\* C11 (amended): two such frames are never in the same sub-group of the initial
\* partition (the merge step may join their sub-groups afterwards).
C11_NeverInSameSubGroup ==
    pc \in {"partitioned", "merged"} =>
        \A i \in 1..(Len(inp) - 1) : unrelatedPair(i) => splitAfter(out.initial, i)

\* C11 witness: a batch with such a pair was partitioned, the pair was split, and
\* the merge joined the whole batch into one group.
C11_Witness ==
    /\ pc = "merged"
    /\ \E i \in 1..(Len(inp) - 1) : unrelatedPair(i) /\ splitAfter(out.initial, i)
    /\ Len(out.final) = 1

\* the threshold in percent as the claim states it
statedPct(S) == IF S < 1024 THEN 95 ELSE IF S <= 8192 THEN 90 ELSE 85

\* the lines are one compressed block spanning the group
oneBlockOf(lines, group) ==
    /\ Len(lines) = 1
    /\ lines[1].shape = "obj"
    /\ frameOfLine(lines[1]).EventType = KindZ
    /\ frameOfLine(lines[1]).Time = group[1].Time
    /\ frameOfLine(lines[1]).EndTime = group[Len(group)].Time

decidedAs(lines, group, C, S, pct) ==
    IF C * 100 < pct * S THEN oneBlockOf(lines, group) ELSE lines = rawLines(group)

\* C12: a group of at least minimum size with original size S and compressed size C
\* is written as one compressed block iff C/S < t(S), t(S) = 0.95 for S < 1024,
\* 0.90 for 1024 <= S <= 8192, 0.85 for S > 8192; otherwise its frames are written raw.
C12_DecisionByThreshold ==
    pc = "decided" =>
        decidedAs(out, inp, Len(compressData(groupData(inp))), Len(groupData(inp)),
                  statedPct(Len(groupData(inp))))

\* the threshold in percent with both boundaries on the side of the larger threshold
boundedPct(S) == IF S <= 1024 THEN 95 ELSE IF S <= 8192 THEN 90 ELSE 85

\* C12 (amended): the same decision with t(S) = 0.95 for S <= 1024,
\* 0.90 for 1024 < S <= 8192, 0.85 for S > 8192.
C12_DecisionByThresholdAbove ==
    pc = "decided" =>
        decidedAs(out, inp, Len(compressData(groupData(inp))), Len(groupData(inp)),
                  boundedPct(Len(groupData(inp))))

\* a group of exactly 1024 bytes with a ratio between 0.90 and 0.95 became one block
C12_Witness ==
    /\ pc = "decided"
    /\ Len(groupData(inp)) = 1024
    /\ Len(compressData(groupData(inp))) * 100 >= 90 * 1024
    /\ Len(compressData(groupData(inp))) * 100 < 95 * 1024
    /\ oneBlockOf(out, inp)

\* a WriteFrame call of the recording returned an error
writeFailed == \E i \in 1..Len(written) : ~written[i].ok

\* C13: when a file write fails while a frame is written or flushed during a
\* streaming recording, Rec returns a non-nil error after close-and-repair was
\* attempted; Rec never reports success after a failed write.
C13_WriteFailureSurfaced ==
    (pc.main = "done" /\ writeFailed) => (pc.err /\ Len(fixLog) > 0)

\* a value that is present in a keyed line but has another type than `want`
wrongType(val, want) == val.t # want /\ val.t # "none"

\* the line is none of the two encodings, or too short, or a value fails coercion
malformed(line) ==
    \/ line.shape \notin {"arr", "obj", "header"}
    \/ /\ line.shape = "arr"
       /\ \/ Len(line.v) < 3
          \/ line.v[1].t # "num"
          \/ line.v[2].t # "str"
          \/ line.v[3].t # "str"
    \/ /\ line.shape = "obj"
       /\ \/ wrongType(line.v[1], "num")
          \/ wrongType(line.v[2], "str")
          \/ wrongType(line.v[3], "str")

\* C14: decoding a line that is neither an object nor a list, or a list of fewer
\* than 3 elements, or whose time is not numeric or whose kind or data is not a
\* string, returns a decode error, in the positional and in the keyed encoding.
C14_MalformedRejected ==
    (pc = "lineDecoded" /\ malformed(inp)) => out.err

\* payloads of the frames a..b handed to WriteFrame, concatenated
writtenSpan(a, b) == Concat([i \in 1..(b - a + 1) |-> written[a + i - 1].f.EventData])

\* the line is a positional list of exactly time, "o" and a string
rawShaped(line) ==
    /\ Len(line.v) = 3
    /\ line.v[1].t = "num"
    /\ line.v[2] = Str(KindO)
    /\ line.v[3].t = "str"
    /\ \E k \in 1..Len(written) : written[k].f.Time = line.v[1].n

\* the line is a keyed "z" object spanning the written frames a..b
blockSpans(line, a, b) ==
    /\ line.v[1] = Num(written[a].f.Time)
    /\ line.v[4] = Num(written[b].f.Time)
    /\ line.v[4].n >= line.v[1].n
    /\ line.v[2] = Str(KindZ)
    /\ frameOutput(frameOfLine(line)) = writtenSpan(a, b)

\* the first and the last frame of the block are looked up by their times
blockShaped(line) ==
    \E a \in 1..Len(written) :
        /\ line.v[1] = Num(written[a].f.Time)
        /\ \E b \in a..Len(written) :
              line.v[4] = Num(written[b].f.Time) /\ blockSpans(line, a, b)

\* C15: in every file the writer produces, each raw frame is a positional list of
\* 3 elements with tag "o" and no endTime, and each compressed block is a keyed
\* object whose time is the first and whose endTime is the last original frame
\* time of its group, with endTime >= time.
C15_LineShapes ==
    swState = "ok" =>
        \A i \in 2..Len(file) :
            /\ file[i].shape \in {"arr", "obj"}
            /\ file[i].shape = "arr" => rawShaped(file[i])
            /\ file[i].shape = "obj" => blockShaped(file[i])

\* C15 witness: a closed file holding a raw line and a block that ends later than
\* it starts.
C15_Witness ==
    /\ swState = "ok"
    /\ closeCalls >= 1
    /\ \E i, j \in 2..Len(file) :
          /\ file[i].shape = "arr"
          /\ file[j].shape = "obj"
          /\ frameOfLine(file[j]).EndTime > frameOfLine(file[j]).Time

\* processing time of the frame emitted last before iteration k (0 when none was)
RECURSIVE lastProcTime(_)
lastProcTime(k) ==
    IF k <= 1 THEN 0
    ELSE IF out[k - 1].res = "written" THEN out[k - 1].p
    ELSE lastProcTime(k - 1)

\* recorded gap before frame i, floored at zero
gapBefore(i) == Max(0, inp.frames[i].Time - inp.frames[i - 1].Time)

\* C16: for every frame i > 0 the player sleeps max(0, max(0, time[i] - time[i-1])
\* / speed - p), p being the time spent processing the previously emitted frame,
\* then emits frame i; frames are emitted in recording order, each at most once.
C16_Pacing ==
    pc.ret \in {"running", "nil", "err"} =>
        \A k \in 1..Len(out) :
            /\ out[k].i = k
            /\ out[k].res = "written" => out[k].data = frameOutput(inp.frames[k])
            /\ k > 1 =>
                 out[k].slept * inp.speedX2 =
                     Max(0, gapBefore(k) * 2 - lastProcTime(k) * inp.speedX2)

\* frame k is a compressed block whose payload fails base64 decoding or gunzip
undecodable(k) == inp.frames[k].EventType = KindZ /\ processCompressedFrame(inp.frames[k]).err

\* C17: a compressed block that fails base64 decoding or decompression is skipped
\* without writing to the sink and without ending playback: later frames are still
\* emitted, and Play returns nil if no sink write fails.
C17_BadBlockSkipped ==
    /\ \A k \in 1..Len(out) :
          /\ undecodable(k) => (out[k].res = "skipped" /\ out[k].data = <<>>)
          /\ ~undecodable(k) => out[k].res \in {"written", "failed"}
    /\ pc.ret = "err" => (Len(out) >= 1 /\ out[Len(out)].res = "failed")
    /\ pc.ret = "nil" =>
          /\ Len(out) = Len(inp.frames)
          /\ \A k \in 1..Len(out) : out[k].res # "failed"
    /\ pc.ret = "running" => pc.i = Len(out) + 1

\* C17 witness: Play returned nil after skipping a block that is no base64 text and
\* a block that is no gzip stream, and wrote a later frame.
C17_Witness ==
    /\ pc.ret = "nil"
    /\ \E a, b, c \in 1..Len(out) :
          /\ a < c /\ b < c
          /\ undecodable(a) /\ Base64Decode(inp.frames[a].EventData).err
          /\ undecodable(b) /\ ~Base64Decode(inp.frames[b].EventData).err
          /\ out[c].res = "written" /\ Len(out[c].data) > 0

\* C18: Closed is terminal: once the first Close has completed, a later Close or
\* WriteFrame performs no file operation (no frame write, no sync, no second close
\* of the handle, no further repair pass) and the writer does not record again.
C18_ClosedIsTerminal ==
    [][closeCalls >= 1 => (file' = file /\ handle' = handle /\ fixLog' = fixLog)]_vars

\* frames i and i+1 of the batch are less than 1.0 s apart and score above 0.5
closeAndSimilar(i) ==
    /\ inp[i + 1].Time - inp[i].Time < 1000
    /\ scoreAboveHalf(inp[i].EventData, inp[i + 1].EventData)

\* C19: in the initial partition of a flush two consecutive batch frames are in the
\* same sub-group iff their time gap is below 1.0 s and their similarity score
\* exceeds 0.5; so identical non-empty payloads with gap 0 always stay together.
C19_SameSubGroupIff ==
    pc \in {"partitioned", "merged"} =>
        /\ Concat(out.initial) = inp
        /\ \A i \in 1..(Len(inp) - 1) : (~splitAfter(out.initial, i)) <=> closeAndSimilar(i)

\* C19 witness: a partition that keeps two identical non-empty payloads with gap 0
\* together and splits two identical payloads that are exactly 1.0 s apart.
C19_Witness ==
    /\ pc = "partitioned"
    /\ \E i, j \in 1..(Len(inp) - 1) :
          /\ inp[i].EventData = inp[i + 1].EventData
          /\ Len(inp[i].EventData) > 0
          /\ inp[i + 1].Time = inp[i].Time
          /\ ~splitAfter(out.initial, i)
          /\ inp[j].EventData = inp[j + 1].EventData
          /\ Len(inp[j].EventData) > 0
          /\ inp[j + 1].Time - inp[j].Time = 1000
          /\ splitAfter(out.initial, j)

\* the line is a raw line carrying frame k with its time and payload unchanged
rawLineOf(line, k) ==
    /\ line.shape = "arr"
    /\ parses(line)
    /\ frameOfLine(line).Time = written[k].f.Time
    /\ frameOfLine(line).EventData = written[k].f.EventData

\* the line is a block over at least minBatchSize written frames, frame k among them
blockOver(line, k) ==
    /\ line.shape = "obj"
    /\ \E a \in 1..k : \E b \in k..Len(written) :
          b - a + 1 >= minBatchSize /\ blockSpans(line, a, b)

\* C20: every compressed block written covers at least 4 original frames; a group
\* or pending batch with fewer frames, the batch flushed by Close included, is
\* written as one raw line per frame with its time and payload unchanged.
C20_SmallGroupsRaw ==
    swState = "ok" =>
        /\ \A i \in 2..Len(file) :
              file[i].shape = "obj" => \E k \in 1..Len(written) : blockOver(file[i], k)
        /\ (closeCalls >= 1 /\ allWritesClean) =>
              \A k \in 1..Len(written) :
                  \E i \in 2..Len(file) : rawLineOf(file[i], k) \/ blockOver(file[i], k)
        /\ (closeCalls >= 1 /\ allWritesClean /\ Len(written) < minBatchSize) =>
              /\ Len(file) = Len(written) + 1
              /\ \A k \in 1..Len(written) : rawLineOf(file[k + 1], k)

\* the step is a WriteFrame call with compression enabled on a batch of at least
\* minBatchSize frames
writeOnFullBatch ==
    /\ enableCompress
    /\ Len(written') = Len(written) + 1
    /\ Len(batchFrames) >= minBatchSize

\* the frame handed to WriteFrame in this step
incoming == written'[Len(written')].f

\* the pending batch was written out and the incoming frame starts the next batch
flushedFirst == Len(file') > Len(file) /\ batchFrames' = <<incoming>>

\* C21: whenever a frame arrives while the batch holds at least the minimum group
\* size and more than 1.5 s of recording time have elapsed since the time of the
\* batch's first frame, that WriteFrame call triggers a flush.
C21_FlushAfterBatchAge ==
    [][(writeOnFullBatch /\ incoming.Time - batchFrames[1].Time > 1500)
          => Len(file') > Len(file)]_vars

\* C21 (amended): ... and more than 1.5 s of recording time lie between the frame
\* and the last frame of the batch (the previous frame): the batch is flushed by
\* that WriteFrame call before the frame is appended.
C21_FlushAfterGap ==
    [][(writeOnFullBatch
          /\ incoming.Time - batchFrames[Len(batchFrames)].Time > 1500)
          => flushedFirst]_vars

\* C21 witness: five small frames were written, the fifth more than 1.5 s after the
\* fourth; the first four are in the file and the fifth is the batch.
C21_Witness ==
    /\ enableCompress
    /\ Len(written) = 5
    /\ \A k \in 1..5 : Len(written[k].f.EventData) = 1
    /\ written[5].f.Time - written[4].f.Time > 1500
    /\ Len(file) > 1
    /\ batchFrames = <<written[5].f>>

RECURSIVE payloadBytes(_)
\* sum of the payload lengths of the frames of b
payloadBytes(b) == IF Len(b) = 0 THEN 0 ELSE Len(b[1].EventData) + payloadBytes(Tail(b))

\* the last WriteFrame call returned nil
lastWriteOk == Len(written) >= 1 /\ written[Len(written)].ok

\* C22: the incoming frame is appended and, if the accumulated bytes then exceed
\* 4096 with at least 4 frames in the batch, a flush runs in the same WriteFrame
\* call: no WriteFrame returns leaving >= 4 frames and > 4096 bytes pending.
C22_NoBigBatchPending ==
    (swState = "ok" /\ enableCompress /\ lastWriteOk) =>
        ~(Len(batchFrames) >= 4 /\ payloadBytes(batchFrames) > 4096)

\* C22 (amended): the size is compared before the incoming frame is appended: a
\* pending batch of >= 4 frames and > 4096 bytes is flushed by the next WriteFrame
\* call, and the incoming frame starts the next batch.
C22_BigBatchFlushedFirst ==
    [][(writeOnFullBatch /\ payloadBytes(batchFrames) > 4096) => flushedFirst]_vars

\* C22 witness: a batch of 5 frames and more than 4096 bytes was left pending by
\* one WriteFrame and flushed by the next, less than 1.5 s later.
C22_Witness ==
    /\ enableCompress
    /\ Len(written) = 6
    /\ Len(written[5].f.EventData) + 4 > 4096
    /\ \A k \in 1..4 : Len(written[k].f.EventData) = 1
    /\ written[6].f.Time - written[5].f.Time <= 1500
    /\ Len(file) > 1
    /\ batchFrames = <<written[6].f>>

\* C23: after every WriteFrame call that returns nil with compression enabled, the
\* batch buffer holds fewer than maxBatchSize (32) frames and totalDataSize is the
\* sum of the payload lengths of the frames in the batch buffer.
C23_BatchBelowMax ==
    (swState = "ok" /\ enableCompress /\ lastWriteOk) =>
        /\ Len(batchFrames) < 32
        /\ totalDataSize = payloadBytes(batchFrames)

\* C23 witness: the 32nd frame of a batch was accepted and the batch flushed by
\* that call.
C23_Witness ==
    /\ swState = "ok" /\ enableCompress /\ lastWriteOk
    /\ closeCalls = 0
    /\ Len(written) = 32
    /\ written[32].f.Time - written[1].f.Time = 310
    /\ Len(batchFrames) = 0
    /\ Len(file) > 1

\* C24: WriteFrame calls the file sync only when at least syncIntervalMs ms of
\* wall-clock time have passed since the last sync it performed: two consecutive
\* syncs of WriteFrame are never less than the interval apart, and a WriteFrame
\* inside the interval performs no sync.
C24_SyncsApart ==
    swState = "ok" =>
        /\ \A k \in 1..(Len(out.syncs) - 1) :
              out.syncs[k + 1] - out.syncs[k] >= syncIntervalMs(cfg)
        /\ Len(out.syncs) <= Len(written)
        /\ Len(out.syncs) > 0 => out.lastSyncTime = out.syncs[Len(out.syncs)]

\* C24 witness: with a configured interval of 300 ms WriteFrame synced at least
\* twice and at least one WriteFrame call in between did not sync.
C24_Witness ==
    /\ cfg.SyncInterval = 300
    /\ Len(out.syncs) >= 2
    /\ Len(written) > Len(out.syncs)
    /\ out.now - out.lastSyncTime < 300

\* the listener goroutine moves on its shutdown branch in this step: its select
\* takes the signal, it calls Close, or it calls os.Exit(0)
listenerShutsDown ==
    \/ pc'.listener \in {"gotSignal", "closed"} /\ pc'.listener # pc.listener
    \/ pc.listener = "closed" /\ pc'.exited /\ ~pc.exited /\ ~pc'.byInit

\* C25: once the normal recording path has signalled completion (close(done)) the
\* signal listener performs no shutdown, and the listener's close-and-exit
\* sequence and the normal path's finalization never both run for one recording.
C25_ListenerCancelled ==
    [][/\ pc.done => ~listenerShutsDown
       /\ ~(pc'.listener = "closed" /\ pc'.main \in {"deferred", "done"})]_vars

\* C26: if writing one frame panics inside the per-frame callback, the panic is
\* recovered at the callback boundary, the writer's Close and the repair pass are
\* both attempted, and the panic does not propagate into the capture stream's
\* write path: the frame stays recorded by the Stream and the recording goes on.
C26_PanicRecovered ==
    [][pc'.panics = pc.panics + 1 =>
         /\ closeCalls' = closeCalls + 1
         /\ handle' = "closed"
         /\ Len(fixLog') = Len(fixLog) + 2
         /\ fixLog'[Len(fixLog') - 1].by = "Close"
         /\ fixLog'[Len(fixLog')].by = "recover"
         /\ file' = FixCast(file')
         /\ Len(stream'.Frames) = Len(stream.Frames) + 1
         /\ pc'.main = "recording" /\ ~pc'.exited]_vars

\* C26 witness: a frame was written, a later frame panicked, and the recovery ran
\* Close and the repair pass while the recording is still running.
C26_Witness ==
    /\ pc.panics = 1
    /\ pc.main = "recording"
    /\ Len(written) >= 1
    /\ Len(stream.Frames) > Len(written)
    /\ closeCalls = 1
    /\ Len(fixLog) >= 2 /\ fixLog[Len(fixLog)].by = "recover"

\* compressing the group, or encoding its block, failed under `fault`
fellBack(group, fault) ==
    /\ Len(group) >= minBatchSize
    /\ \/ fault = "compress"
       \/ /\ fault = "marshal"
          /\ worthCompressing(Len(compressData(groupData(group))), Len(groupData(group)))

\* line is a raw line that decodes to the time and payload of frame f
decodesTo(line, f) ==
    /\ line.shape = "arr"
    /\ ~UnmarshalJSON(line, ZeroFrame).err
    /\ UnmarshalJSON(line, ZeroFrame).f.Time = f.Time
    /\ UnmarshalJSON(line, ZeroFrame).f.EventData = f.EventData

C28_DispatchSkipsWhitespace ==
    pc = "lineDecoded" => out = UnmarshalJSON(Padded(inp, 0), ZeroFrame)

\* the value x brought into lo..hi
clampInto(x, lo, hi) == IF x < lo THEN lo ELSE IF x > hi THEN hi ELSE x

\* C29: the compress-ratio setting determines the target group size and is clamped
\* into [4, 32] in the streaming path and into [4, 64] in the bulk path, with
\* default 8 (taken when no positive ratio is set, unless that also counts as a
\* value below the range); a value outside the range behaves like the nearest bound.
C29_RatioClamped ==
    pc = "configured" =>
        \/ out.target = clampInto(inp.ratio, 4, IF inp.path = "streaming" THEN 32 ELSE 64)
        \/ inp.ratio <= 0 /\ out.target = 8

\* C30: frame times produced by the capture Stream are strictly increasing in
\* write order: each write adds a positive delta to the cumulative elapsed time,
\* and a wall-clock delta that is zero or negative contributes exactly 500 ms.
C30_TimesIncrease ==
    pc = "stream" =>
        \A i \in 1..Len(written) :
            /\ written[i].f.Time > (IF i = 1 THEN 0 ELSE written[i - 1].f.Time)
            /\ inp[i] <= 0 =>
                  written[i].f.Time = (IF i = 1 THEN 0 ELSE written[i - 1].f.Time) + 500

\* C30 witness: a write with no wall-clock progress and one whose clock stepped
\* back both follow an earlier frame and are recorded 0.5 s after their predecessor.
C30_Witness ==
    /\ pc = "stream"
    /\ Len(written) = 3
    /\ inp[2] = 0 /\ inp[3] = -5
    /\ written[2].f.Time = written[1].f.Time + 500
    /\ written[3].f.Time = written[2].f.Time + 500
    /\ stream.Frames[3].Time = written[3].f.Time

\* C35: in the streaming writer, whenever a flush runs with compression enabled on
\* a batch of at least 4 and at most 32 frames, the merge step collapses all
\* sub-groups into a single group equal to the whole batch.
C35_MergedIntoOne ==
    (pc = "merged" /\ Len(inp) >= 4 /\ Len(inp) <= 32) => out.final = <<inp>>

\* C35 witness: a full batch of 32 frames that the partition split into 32
\* sub-groups of one frame was merged into one group of 32.
C35_Witness ==
    /\ pc = "merged"
    /\ Len(inp) = 32
    /\ Len(out.initial) = 32
    /\ Len(out.final) = 1
    /\ Len(out.final[1]) = 32

\* C32: no group handed to the compression decision, hence no compressed block,
\* contains more frames than the configured maximum group size (64 in the bulk
\* path), for every frame sequence and every compress-ratio setting.
C32_GroupsWithinMax ==
    pc = "merged" => \A k \in 1..Len(out.final) : Len(out.final[k]) <= 64

\* the lines are one compressed block
oneBlock(lines) == Len(lines) = 1 /\ lines[1].shape = "obj"

\* C39: whenever a compressed block is emitted, the length of its persisted payload
\* (the base64 text of the compressed bytes) is smaller than the total length of
\* the original payloads it replaces.
C39_BlockSmallerThanRaw ==
    (pc = "decided" /\ oneBlock(out)) =>
        Len(BytesOfString(out[1].v[3].s)) < Len(groupData(inp))

\* C33: Runner.Play sets MaxWait = 3.0 and passes it to the player, and no wait
\* between two consecutive frames exceeds that cap, however large the recorded gap.
C33_WaitCapped ==
    pc.ret # "start" => \A k \in 1..Len(out) : out[k].slept <= 3000

\* C34: loading a recording treats line 1 as the header and returns, in file order,
\* exactly the later lines that decode as frames, whatever their length: a line
\* that fails to decode is skipped and never keeps later lines from being loaded.
C34_AllDecodableLoaded ==
    pc.ret # "start" =>
        inp.frames = framesOf(SelectSeq(Tail(file), parses))

\* written frame k is in the file f: as a raw line with its time, or inside a block
frameInFile(f, k) ==
    \E i \in 2..Len(f) :
        \/ f[i].shape = "arr" /\ parses(f[i]) /\ frameOfLine(f[i]).Time = written[k].f.Time
        \/ blockOver(f[i], k)

\* C36: once a Close has returned, the file contains every frame for which
\* WriteFrame returned nil, also when WriteFrame ran after an earlier Close.
C36_AcceptedFramesInFile ==
    [][closeCalls' = closeCalls + 1 =>
         \A k \in 1..Len(written) : written[k].ok => frameInFile(file', k)]_vars

\* line i of the file carries written frame k: a raw line with its time, or a
\* block whose time span contains it
carries(i, k) ==
    /\ i \in 2..Len(file)
    /\ file[i].shape \in {"arr", "obj"}
    /\ parses(file[i])
    /\ LET fr == frameOfLine(file[i])
       IN IF fr.EventType = KindZ
          THEN fr.Time <= written[k].f.Time /\ written[k].f.Time <= fr.EndTime
          ELSE fr.Time = written[k].f.Time

\* C37: no frame is written to the file more than once, even when a file write
\* fails in the middle of a flush and a later flush or Close succeeds.
C37_NoFrameTwice ==
    \A k \in 1..Len(written) :
        Cardinality({i \in 2..Len(file) : carries(i, k)}) <= 1

\* the callback's recover handler is at the Lock of its Close
recoveryAtLock == pc.cb = at("Close", "lock", "recover")

\* goroutine t is inside a critical section of Close, which ends with Unlock
inClose(t) == pc[t].op = "Close" /\ pc[t].at \in {"body", "write", "close", "unlock"}

\* C38: if WriteFrame panics while it holds the mutex, the mutex is released before
\* the recover handler calls Close: when the recovery's Close reaches Lock, the
\* mutex is free, or held by the listener inside its own Close, which releases it;
\* it is never held by the callback's goroutine itself, so Close cannot deadlock.
C38_RecoveryCloseProceeds ==
    recoveryAtLock =>
        /\ inp.mu # "cb"
        /\ inp.mu = "sig" => inClose("sig")

\* C38 witness: after a panic in WriteFrame the recovery's Close ran to its end
\* while frames were pending
C38_Witness ==
    /\ pc.panics = 1
    /\ pc.cb = at("FixCast", "fix", "recover")
    /\ Len(written) >= 2
    /\ closeCalls = 1
    /\ inp.mu = "none"

\* goroutine t is at a statement of WriteFrame or Close that reads or writes the
\* batch buffer or the file handle
touchesWriter(t) == pc[t].at \in {"body", "write", "close"}

\* the lines each call wrote to the file lie together
callsContiguous ==
    \A i \in 1..Len(out) : \A k \in i..Len(out) :
        out[k] = out[i] => \A j \in i..k : out[j] = out[i]

\* time of the first and of the last frame a file line carries
lineFirst(line) == frameOfLine(line).Time
lineLast(line) ==
    IF frameOfLine(line).EventType = KindZ THEN frameOfLine(line).EndTime
    ELSE frameOfLine(line).Time

\* the frame lines of the file are in the order the frames arrived
arrivalOrder ==
    \A i \in 2..Len(file) : \A j \in (i + 1)..Len(file) :
        lineLast(file[i]) < lineFirst(file[j])

\* C31: the batch buffer and the file handle are touched only by the goroutine
\* that holds the writer's mutex, a flush runs inside one critical section, the
\* lines of the listener's Close never interleave with those of a concurrent
\* WriteFrame, and the file's lines are in frame-arrival order.
C31_MutexGuardsWriter ==
    /\ \A t \in Threads : touchesWriter(t) => inp.mu = t
    /\ \A t \in Threads : inp.todo[t] # <<>> => inp.mu = t
    /\ callsContiguous
    /\ arrivalOrder

\* C31 witness: a WriteFrame flushed its batch line by line, and the listener's
\* Close then wrote the frame still pending behind those lines
C31_Witness ==
    /\ Len(out) >= 5
    /\ out[1].by = "cb"
    /\ out[Len(out)].by = "sig"
    /\ pc.sig.op = "Close"
    /\ pc.sig.at = "close"

====
